---- MODULE Spec2Model ----
(***************************************************************************)
(* Verification model of paqet (amir0241/paqet).                           *)
(*                                                                         *)
(* The module holds one state machine per subsystem; every subsystem has   *)
(* its own variables, initial predicate, idle predicate (the subsystem     *)
(* left untouched) and next-state relation, and a specification that runs  *)
(* that subsystem alone.                                                   *)
(*                                                                         *)
(*   SpecClient       internal/client: newConn, newStrmWithRetry, Start    *)
(*   SpecIptables     internal/gfwresist: IPTablesManager.Apply / Cleanup  *)
(*   SpecStartServer  cmd/run: startServer around the manager              *)
(*   SpecPool         internal/pkg/buffer: Pool.Get / GetN / Put           *)
(*   SpecServer       internal/server: New and the stream semaphore        *)
(*   SpecPipe         the send pipeline: submit, workers, injection        *)
(*   SpecLife         internal/server: Start, listen, shutdown             *)
(*   SpecGrpcClose    internal/tnet/grpc: Conn.Close, Strm.Close           *)
(*   SpecGrpcData     internal/tnet/grpc: receiveLoop, Strm.Read           *)
(*   SpecBackoff      internal/client: calculateRetryBackoff               *)
(*   SpecTun          internal/tunnel, internal/server: the TUN relay      *)
(*   SpecIter         internal/pkg/iterator: Next and Peek                 *)
(*   SpecNoSlots      internal/client: newConn on a client without slots   *)
(*   SpecRegistry     internal/server: getConnPool, cleanupConnPools       *)
(*   SpecLog          internal/flog: SetLevel, logf and the consumer       *)
(*   SpecFatal        internal/flog: the same with Fatalf                  *)
(*   SpecGrpcPeer     internal/tnet/grpc: receiveLoop under any peer       *)
(*   SpecQuic         internal/tnet/quic: Conn.Ping and Conn.Close         *)
(*   SpecStat         internal/client: monitorTransportStats               *)
(*   SpecStart        internal/client: Client.Start                        *)
(*   SpecTunFair      the TUN relay with its goroutines scheduled fairly   *)
(***************************************************************************)
EXTENDS Integers, Sequences, FiniteSets, TLC

VARIABLES
    \* ---- client (connection supervisor) ----
    nslots,       \* cfg.Transport.Conn: number of timedConn slots
    cfgMaxRetry,  \* cfg.Performance.MaxRetryAttempts as configured
    iterIdx,      \* iterator.Iterator index
    mu,           \* Client.mu: 0 when free, else the caller holding it
    slotConn,     \* timedConn.conn per slot: connection id, 0 for nil
    hcAge,        \* ticks since timedConn.lastHealthCheck per slot
    tcpfAge,      \* ticks since timedConn.lastTCPFSend per slot
    connSt,       \* per connection id: "none", "open", "dead", "closed"
    nextId,       \* next connection id createConn hands out
    ctxDone,      \* the client's context has been cancelled
    shutIdx,      \* shutdown goroutine: next slot to close
    pc,           \* per caller: position inside newStrm, "ok"/"err" once returned
    attempt,      \* per caller: argument of newStrmWithRetry
    tc,           \* per caller: slot picked by iter.Next()
    got,          \* per caller: connection returned by newConn
    tries,        \* per caller: newConn calls made by the current newStrm
    clean,        \* per caller: no fresh failure during the current call
    reached,      \* per caller: first dead connection the call was handed or met
    ncErr,        \* per caller: the error its last newConn call returned
    tcpfRes,      \* per caller inside newConn: what became of the TCPF refresh
    \* ---- iptables manager and startServer ----
    goos,         \* runtime.GOOS
    port,         \* IPTablesManager.port
    installed,    \* rules in the kernel tables: count per (bin, rule)
    pre,          \* the rules installed before Apply
    applied,      \* IPTablesManager.applied
    iptPc,        \* manager: "idle", "applying" or "cleaning"
    cmdIdx,       \* index of the command the running Apply or Cleanup is at
    applyRet,     \* what Apply returned: "none" (not called), "ok", "err"
    cleanups,     \* completed Cleanup calls
    added,        \* commands whose add succeeded, in order
    deleted,      \* commands for which Cleanup issued a delete, in order
    failedAt,     \* index of the add command that failed, 0 if none
    delFailed,    \* some delete command of Cleanup failed
    autoIpt,      \* cfg.GFWResist.AutoIPTables
    ssPc,         \* position inside startServer
    deferred,     \* startServer has deferred mgr.Cleanup()
    \* ---- buffer pool ----
    defaultSize,  \* Pool.defaultSize
    bufSt,        \* per buffer: "unused", "out" (held by a caller), "pooled", "gone"
    bufCap,       \* per buffer: cap(*bufp)
    bufLen,       \* per buffer: len(*bufp)
    over,         \* per buffer: GetN(n) returned it for an n above defaultSize
    nextBuf,      \* next buffer identity an allocation hands out
    lastOp,       \* the last Get or GetN: operation, buffer, length, freshness
    \* ---- server stream semaphore ----
    maxStreams,   \* cfg.Performance.MaxConcurrentStreams
    semCap,       \* capacity of Server.streamSemaphore, 0 for a nil channel
    semHeld,      \* tokens in Server.streamSemaphore
    strmSt,       \* per stream: "new", "waiting", "running", "done", "dropped"
    srvDone,      \* the connection's context is cancelled
    \* ---- send pipeline ----
    sqCap,        \* send_queue_size: capacity of the send queue
    nworkers,     \* packet_workers: number of worker tasks
    sq,           \* the send queue: packet ids, oldest first
    dropped,      \* the dropped counter
    fullDrops,    \* drops made by submit on a full queue
    held,         \* per worker: the packet it has dequeued, 0 if none
    tryNo,        \* per worker: injection retries made for the held packet
    blocked,      \* the injection path is blocked
    openedAt,     \* packets submitted when the path was unblocked, -1 if never
    nsub,         \* packets submitted so far (their ids are 1..nsub)
    injected,     \* number of packets that passed the injection path
    \* ---- server lifecycle (Server.Start) ----
    lproto,       \* cfg.Transport.Protocol
    pooling,      \* cfg.Performance.EnableConnectionPooling
    stPc,         \* Server.Start: "init", "waiting", "returned", "failed"
    stCtx,        \* Start's context has been cancelled by the signal goroutine
    listenPc,     \* Server.listen: "off", "top", "accepting", "done"
    hSt,          \* per accepted connection: "none", "running", "done"
    sweeper,      \* cleanupConnPools goroutine: "off", "running", "done"
    poolEnt,      \* s.connPools per address: "none", "open", "closed"
    openPools,    \* connection pools created and not yet closed
    poolsMade,    \* connection pools created so far
    wg,           \* Server.wg counter
    \* ---- gRPC transport connection and its streams ----
    gIsServer,    \* Conn.isServer
    gClosed,      \* Conn.closed
    gCtxDone,     \* Conn.ctx has been cancelled
    streamMu,     \* Conn.streamMu: -1 when free, else the closer holding it
    gKnown,       \* ids of the Strm objects created so far
    gActive,      \* keys of Conn.activeStreams
    sClosed,      \* per stream: Strm.closed
    chOpen,       \* per stream: recvChan has not been closed
    recvChan,     \* per stream: payloads waiting in recvChan, oldest first
    recvBuf,      \* per stream: Strm.recvBuf
    readOut,      \* per stream: the bytes returned by the Read calls so far
    sentLen,      \* per stream: bytes the peer has sent (byte i has value i)
    eof,          \* per stream: a Read has returned io.EOF
    closeMsgs,    \* per stream: close messages this side has sent
    grpcCloses,   \* calls of GRPCConn.Close made
    pktCloses,    \* calls of PacketConn.Close made
    cPc,          \* per closer: position inside Conn.Close or Strm.Close
    cTarget,      \* per closer: 0 for Conn.Close, else the stream being closed
    cTodo,        \* per closer in Conn.Close: streams the range has yet to visit
    cAlready,     \* per closer: its last call found the closed flag set
    cRet,         \* per closer: what its last call returned: "none", "nil", "err"
    cCalls,       \* per closer: Close calls made so far
    rlPc,         \* receiveLoop: "top", "recv", "closing" or "done"
    nmsgs,        \* messages received from the peer so far
    \* ---- retry backoff ----
    boInitial,    \* cfg.Performance.RetryInitialBackoffMs
    boMax,        \* cfg.Performance.RetryMaxBackoffMs
    boAttempt,    \* the failed attempt the last wait followed, -1 before any
    boWait,       \* the last wait in milliseconds
    \* ---- TUN tunnel handler ----
    tunSide,      \* "client" for Handler.Start, "server" for handleTUNProtocol
    tunEnabled,   \* server: cfg.TUN.Enabled
    tunDev,       \* server: s.tun != nil
    tunStrmOk,    \* client: h.client.TUN() will succeed
    tunPc,        \* handler: "new", "relaying" or "returned"
    tunRet,       \* what the handler returned, "none" before it has
    tunCtx,       \* the handler's context has been cancelled
    tunCancelAt,  \* tunPc at the moment of the cancellation, "none" before
    relayPc,      \* per direction: position of its CopyTUN goroutine
    errCh,        \* the results the directions have sent to errCh
    tunIO,        \* reads and writes made on the stream and the TUN device
    tunSeen,      \* the select case the handler took: "errCh" or "ctx"
    tunSeenErr,   \* the error the handler received from errCh
    \* ---- iterator ----
    itItems,      \* Iterator.Items
    itIndex,      \* the iterator's index
    itPicks,      \* the slots (0-based) the Next calls selected, in order
    itRets,       \* the items the Next calls returned, in order
    itPeeked,     \* what the last Peek returned, -1 before any
    \* ---- server pool registry ----
    regPool,      \* s.connPools: per address the pool registered, 0 for none
    rpSt,         \* per pool: "none", "open" or "closed"
    rpAge,        \* per pool: time since its entry's lastAccess
    rpNext,       \* next pool connpool.New hands out
    gpPc,         \* per getter: position inside getConnPool
    gpAddr,       \* per getter: the address asked for
    gpEnt,        \* per getter: the entry found under the read lock
    gpRet,        \* per getter: the pool returned, 0 for nil
    gpWith,       \* per getter: the getters whose calls overlapped its call
    nsweeps,      \* sweeps cleanupConnPools has made
    \* ---- flog ----
    minLevel,     \* flog.minLevel, -1 for None
    consumer,     \* the goroutine SetLevel starts is draining logCh
    logCh,        \* flog.logCh: the lines waiting, as message numbers
    logOut,       \* the lines written to os.Stdout, in order
    nlogged,      \* calls of logf and Fatalf made so far
    logLost,      \* the messages logf dropped in its select
    logSkip,      \* the messages below minLevel or filtered by WErr
    fPc,          \* Fatalf: "none", "sending", "sleeping" or "exited"
    fatalId,      \* the number of the Fatalf message, 0 before the call
    fFiltered,    \* WErr turned an argument of the Fatalf call into nil
    \* ---- QUIC transport connection ----
    qParent,      \* per Conn: made by newConnWithContext (the listener's)
    lnDone,       \* the listener's context is cancelled
    qCtx,         \* per Conn: c.ctx is done
    qTerm,        \* per Conn: connection.Context() is done
    qClosePc,     \* per Conn: Close is "idle", "cancelled" or "done"
    pingPc,       \* per Conn: Ping(false) is "idle", at "ctx" or at "conn"
    pingRet,      \* per Conn: what the last Ping(false) returned
    pingDead,     \* per Conn: cancelled or terminated when that Ping began
    npings,       \* Ping calls made so far
    \* ---- client transport statistics monitor ----
    pktDrops,     \* per slot: DroppedPackets() of the slot's connection
    pktQueue,     \* per slot: QueueDepth() of the slot's connection
    lastDropped,  \* monitorTransportStats: lastDropped
    pressure,     \* the last "packet pressure" warning, or its absence
    statTicks,    \* ticks of the monitor's ticker so far
    nreplaced,    \* connections replaced so far
    \* ---- Client.Start ----
    csConf,       \* len(cfg.Transport.Conn)
    csPc,         \* Start: "init", "loop", "failed" or "started"
    csItems,      \* c.iter.Items: the state of each slot's connection
    csRet,        \* what Start returned: "none", "nil" or "err"
    csFailedAt,   \* the slot whose creation failed, 0 for none
    csCtx,        \* the context given to Start is cancelled
    csMonitor,    \* the monitorTransportStats goroutine is running
    csWatcher     \* the shutdown goroutine: "off", "waiting", "closing", "done"

clientVars == <<nslots, cfgMaxRetry, iterIdx, mu, slotConn, hcAge, tcpfAge,
                connSt, nextId, ctxDone, shutIdx, pc, attempt, tc, got,
                tries, clean, reached, ncErr, tcpfRes>>

\* what newConn reports about its own run
callVars == <<ncErr, tcpfRes>>

iptVars == <<goos, port, installed, pre, applied, iptPc, cmdIdx, applyRet,
             cleanups, added, deleted, failedAt, delFailed, autoIpt, ssPc,
             deferred>>

poolVars == <<defaultSize, bufSt, bufCap, bufLen, over, nextBuf, lastOp>>

srvVars == <<maxStreams, semCap, semHeld, strmSt, srvDone>>

pipeVars == <<sqCap, nworkers, sq, dropped, fullDrops, held, tryNo, blocked,
              openedAt, nsub, injected>>

lifeVars == <<lproto, pooling, stPc, stCtx, listenPc, hSt, sweeper, poolEnt,
              openPools, poolsMade, wg>>

grpcVars == <<gIsServer, gClosed, gCtxDone, streamMu, gKnown, gActive,
              sClosed, chOpen, recvChan, recvBuf, readOut, sentLen, eof,
              closeMsgs, grpcCloses, pktCloses, cPc, cTarget, cTodo, cAlready,
              cRet, cCalls, rlPc, nmsgs>>

boVars == <<boInitial, boMax, boAttempt, boWait>>

tunVars == <<tunSide, tunEnabled, tunDev, tunStrmOk, tunPc, tunRet, tunCtx,
             tunCancelAt, relayPc, errCh, tunIO, tunSeen, tunSeenErr>>

iterVars == <<itItems, itIndex, itPicks, itRets, itPeeked>>

regVars == <<regPool, rpSt, rpAge, rpNext, gpPc, gpAddr, gpEnt, gpRet, gpWith,
             nsweeps>>

logVars == <<minLevel, consumer, logCh, logOut, nlogged, logLost, logSkip,
             fPc, fatalId, fFiltered>>

quicVars == <<qParent, lnDone, qCtx, qTerm, qClosePc, pingPc, pingRet,
              pingDead, npings>>

statVars == <<pktDrops, pktQueue, lastDropped, pressure, statTicks,
              nreplaced>>

startVars == <<csConf, csPc, csItems, csRet, csFailedAt, csCtx, csMonitor,
               csWatcher>>

\* the subsystems added after the first five, and all of them but one
secondVars == <<pipeVars, lifeVars, grpcVars, boVars, tunVars, iterVars>>
fourthVars == <<quicVars, statVars, startVars>>
thirdVars == <<regVars, logVars, fourthVars>>
firstVars == <<clientVars, iptVars, poolVars, srvVars>>
moreVars == <<pipeVars, lifeVars, grpcVars, boVars, tunVars, iterVars, thirdVars>>
allButPipe == <<firstVars, lifeVars, grpcVars, boVars, tunVars, iterVars, thirdVars>>
allButLife == <<firstVars, pipeVars, grpcVars, boVars, tunVars, iterVars, thirdVars>>
allButGrpc == <<firstVars, pipeVars, lifeVars, boVars, tunVars, iterVars, thirdVars>>
allButBo == <<firstVars, pipeVars, lifeVars, grpcVars, tunVars, iterVars, thirdVars>>
allButTun == <<firstVars, pipeVars, lifeVars, grpcVars, boVars, iterVars, thirdVars>>
allButIter == <<firstVars, pipeVars, lifeVars, grpcVars, boVars, tunVars, thirdVars>>
allButReg == <<firstVars, secondVars, logVars, fourthVars>>
allButLog == <<firstVars, secondVars, regVars, fourthVars>>
allButQuic == <<firstVars, secondVars, regVars, logVars, statVars, startVars>>
allButStat == <<firstVars, secondVars, regVars, logVars, quicVars, startVars>>
allButStart == <<firstVars, secondVars, regVars, logVars, quicVars, statVars>>

vars == <<clientVars, iptVars, poolVars, srvVars, moreVars>>

(***************************************************************************)
(* Bounds                                                                  *)
(***************************************************************************)
MaxSlots == 2
NumCallers == 2
MaxConns == 3
MaxCfgRetry == 2
MaxPre == 1
MaxCleanups == 2
MaxBufs == 3
MaxSize == 3
MaxK == 2
NumStreams == 4
MaxQueue == 2
MaxWorkers == 1
MaxSubmits == 10
MaxInjectRetries == 1
NumLConns == 2
NumAddrs == 1
MaxPoolsMade == 2
NumGStreams == 2
NumClosers == 2
MaxCloseCalls == 2
MaxMsgs == 3
MaxPayload == 2
MaxReadBuf == 2
\* capacity of Strm.recvChan in the model (100 in the code)
RecvChanCap == 1
MaxBoInitial == 3
MaxBoMax == 8
MaxBoAttempt == 7
MaxTunIO == 2
MaxItems == 3
MaxIterCalls == 5
NumTargets == 2
NumGetters == 2
MaxRegPools == 3
MaxSweeps == 2
MaxLogs == 4
\* capacity of flog.logCh in the model (1024 in the code)
LogChCap == 2
NumQConns == 2
MaxPings == 2
NumStatSlots == 2
MaxDrops == 2
MaxDepth == 1
MaxStatTicks == 3
MaxReplaced == 1
\* width in bits of the drop counters in the model (uint64 in the code)
UintBits == 4
MaxStartConns == 5

(***************************************************************************)
(* Program constants                                                       *)
(***************************************************************************)
DefaultMaxAttempts == 5
DefaultInitialBackoff == 100
DefaultMaxBackoff == 10000
\* the levels of flog
LevelNone == -1
LevelDebug == 0
LevelInfo == 1
LevelFatal == 4
\* maxIdleTime of cleanupConnPools, 30 minutes, in ticker periods of 10 minutes
MaxIdleTime == 3
\* health check interval and TCPF refresh interval in clock ticks
\* (defaults 1 s and 5 s; one tick is the health interval)
HealthEvery == 1
TcpfEvery == 1
NumRules == 3
MinPort == 1
MaxPort == 65535

Callers == 1..NumCallers
BufIds == 1..MaxBufs
Streams == 1..NumStreams
Slots == 1..nslots
ConnIds == 1..MaxConns

(***************************************************************************)
(* Initial states of the subsystems, and each subsystem at rest (its state *)
(* in the specifications of the other subsystems)                          *)
(***************************************************************************)

Bins == <<"iptables", "ip6tables">>

\* the add commands of Apply in the order it issues them: for each rule of
\* rules(), first iptables, then ip6tables
Cmds ==
    [k \in 1..(NumRules * Len(Bins)) |->
        [bin |-> Bins[((k - 1) % Len(Bins)) + 1],
         rule |-> ((k - 1) \div Len(Bins)) + 1]]

CmdSet == {Cmds[k] : k \in DOMAIN Cmds}

\* the manager and startServer at rest
IptIdle ==
    /\ goos = "linux"
    /\ port = 443
    /\ installed = [a \in CmdSet |-> 0]
    /\ pre = installed
    /\ applied = <<>>
    /\ iptPc = "idle"
    /\ cmdIdx = 0
    /\ applyRet = "none"
    /\ cleanups = 0
    /\ added = <<>>
    /\ deleted = <<>>
    /\ failedAt = 0
    /\ delFailed = FALSE
    /\ autoIpt = FALSE
    /\ ssPc = "start"
    /\ deferred = FALSE

\* NewIPTablesManager(port) on a host that may already have such rules
ManagerInit ==
    /\ goos \in {"linux", "darwin"}
    /\ port \in {0, 443, 65536}
    /\ installed \in [CmdSet -> 0..MaxPre]
    /\ pre = installed
    /\ applied = <<>>
    /\ iptPc = "idle"
    /\ cmdIdx = 0
    /\ applyRet = "none"
    /\ cleanups = 0
    /\ added = <<>>
    /\ deleted = <<>>
    /\ failedAt = 0
    /\ delFailed = FALSE
    /\ ssPc = "start"
    /\ deferred = FALSE

\* the client after a successful Start: every slot holds a live connection
ClientStarted ==
    /\ nslots \in 1..MaxSlots
    /\ iterIdx = 0
    /\ mu = 0
    /\ slotConn = [s \in 1..MaxSlots |-> IF s <= nslots THEN s ELSE 0]
    /\ hcAge = [s \in 1..MaxSlots |-> 0]
    /\ tcpfAge = [s \in 1..MaxSlots |-> 0]
    /\ connSt = [i \in ConnIds |-> IF i <= nslots THEN "open" ELSE "none"]
    /\ nextId = nslots + 1
    /\ ctxDone = FALSE
    /\ shutIdx = 0
    /\ pc = [c \in Callers |-> "idle"]
    /\ attempt = [c \in Callers |-> 0]
    /\ tc = [c \in Callers |-> 0]
    /\ got = [c \in Callers |-> 0]
    /\ tries = [c \in Callers |-> 0]
    /\ clean = [c \in Callers |-> TRUE]
    /\ reached = [c \in Callers |-> 0]
    /\ ncErr = [c \in Callers |-> "none"]
    /\ tcpfRes = [c \in Callers |-> "none"]

\* the client at rest
ClientIdle ==
    /\ nslots = 1
    /\ cfgMaxRetry = 0
    /\ iterIdx = 0
    /\ mu = 0
    /\ slotConn = [s \in 1..MaxSlots |-> IF s <= 1 THEN s ELSE 0]
    /\ hcAge = [s \in 1..MaxSlots |-> 0]
    /\ tcpfAge = [s \in 1..MaxSlots |-> 0]
    /\ connSt = [i \in ConnIds |-> IF i <= 1 THEN "open" ELSE "none"]
    /\ nextId = 2
    /\ ctxDone = FALSE
    /\ shutIdx = 0
    /\ pc = [c \in Callers |-> "idle"]
    /\ attempt = [c \in Callers |-> 0]
    /\ tc = [c \in Callers |-> 0]
    /\ got = [c \in Callers |-> 0]
    /\ tries = [c \in Callers |-> 0]
    /\ clean = [c \in Callers |-> TRUE]
    /\ reached = [c \in Callers |-> 0]
    /\ ncErr = [c \in Callers |-> "none"]
    /\ tcpfRes = [c \in Callers |-> "none"]

\* a pool made by newPool(size): nothing allocated yet
PoolNew ==
    /\ bufSt = [b \in BufIds |-> "unused"]
    /\ bufCap = [b \in BufIds |-> 0]
    /\ bufLen = [b \in BufIds |-> 0]
    /\ over = [b \in BufIds |-> FALSE]
    /\ nextBuf = 1
    /\ lastOp = [op |-> "none", buf |-> 0, len |-> 0, fresh |-> FALSE]

\* the pool at rest
PoolIdle == defaultSize = 1 /\ PoolNew

\* Server.New: the semaphore is a channel of capacity max_concurrent_streams
\* when that is positive, and stays nil otherwise
SemaphoreCapOffByOne(k) == IF k > 0 THEN k + 1 ELSE 0
SemaphoreCap(k) == IF k > 0 THEN k ELSE 0

\* the server after New, no stream accepted yet
ServerNew ==
    /\ semCap = SemaphoreCap(maxStreams)
    /\ semHeld = 0
    /\ strmSt = [t \in Streams |-> "new"]
    /\ srvDone = FALSE

\* the server at rest
ServerIdle == maxStreams = 0 /\ ServerNew

\* the send pipeline right after construction: queue empty, workers waiting
PipeNew ==
    /\ sq = <<>>
    /\ dropped = 0
    /\ fullDrops = 0
    /\ held = [w \in 1..MaxWorkers |-> 0]
    /\ tryNo = [w \in 1..MaxWorkers |-> 0]
    /\ openedAt = IF blocked THEN -1 ELSE 0
    /\ nsub = 0
    /\ injected = 0

\* the send pipeline at rest
PipeIdle == sqCap = 1 /\ nworkers = 1 /\ blocked = FALSE /\ PipeNew

LConns == 1..NumLConns
Addrs == 1..NumAddrs

\* the server after New, Start entered and nothing started yet
LifeNew ==
    /\ stPc = "init"
    /\ stCtx = FALSE
    /\ listenPc = "off"
    /\ hSt = [h \in LConns |-> "none"]
    /\ sweeper = "off"
    /\ poolEnt = [a \in Addrs |-> "none"]
    /\ openPools = 0
    /\ poolsMade = 0
    /\ wg = 0

\* the server lifecycle at rest
LifeIdle == lproto = "quic" /\ pooling = FALSE /\ LifeNew

GStreams == 1..NumGStreams
\* closer 0 is the receive loop (it calls Conn.Close on a receive error)
Closers == 0..NumClosers

\* a connection made by NewClientConn or NewServerConn
GrpcNew ==
    /\ gClosed = FALSE
    /\ gCtxDone = FALSE
    /\ streamMu = -1
    /\ gKnown = {}
    /\ gActive = {}
    /\ sClosed = [s \in GStreams |-> FALSE]
    /\ chOpen = [s \in GStreams |-> TRUE]
    /\ recvChan = [s \in GStreams |-> <<>>]
    /\ recvBuf = [s \in GStreams |-> <<>>]
    /\ readOut = [s \in GStreams |-> <<>>]
    /\ sentLen = [s \in GStreams |-> 0]
    /\ eof = [s \in GStreams |-> FALSE]
    /\ closeMsgs = [s \in GStreams |-> 0]
    /\ grpcCloses = 0
    /\ pktCloses = 0
    /\ cPc = [k \in Closers |-> "idle"]
    /\ cTarget = [k \in Closers |-> 0]
    /\ cTodo = [k \in Closers |-> {}]
    /\ cAlready = [k \in Closers |-> FALSE]
    /\ cRet = [k \in Closers |-> "none"]
    /\ cCalls = [k \in Closers |-> 0]
    /\ rlPc = "top"
    /\ nmsgs = 0

\* the gRPC connection at rest
GrpcIdle == gIsServer = FALSE /\ GrpcNew

\* no stream opening has failed yet
BackoffNew == boAttempt = -1 /\ boWait = 0

\* the retry backoff at rest
BackoffIdle == boInitial = 0 /\ boMax = 0 /\ BackoffNew

\* the two relay directions: 1 is stream <- TUN, 2 is TUN <- stream
Dirs == 1..2

\* the tunnel handler has not been called yet
TunNew ==
    /\ tunPc = "new"
    /\ tunRet = "none"
    /\ tunCtx = FALSE
    /\ tunCancelAt = "none"
    /\ relayPc = [d \in Dirs |-> "unstarted"]
    /\ errCh = <<>>
    /\ tunIO = 0
    /\ tunSeen = "none"
    /\ tunSeenErr = "none"

\* the tunnel handler at rest
TunIdle ==
    /\ tunSide = "server"
    /\ tunEnabled = FALSE
    /\ tunDev = FALSE
    /\ tunStrmOk = FALSE
    /\ TunNew

\* a fresh iterator: index 0, nothing selected yet
IterNew == itIndex = 0 /\ itPicks = <<>> /\ itRets = <<>> /\ itPeeked = -1

\* the iterator at rest
IterIdle == itItems = <<>> /\ IterNew

\* the target addresses, the getConnPool callers and the pools
Targets == 1..NumTargets
Getters == 1..NumGetters
RegPoolIds == 1..MaxRegPools

\* the registry New makes: an empty map, nobody inside getConnPool
RegNew ==
    /\ regPool = [a \in Targets |-> 0]
    /\ rpSt = [p \in RegPoolIds |-> "none"]
    /\ rpAge = [p \in RegPoolIds |-> 0]
    /\ rpNext = 1
    /\ gpPc = [g \in Getters |-> "idle"]
    /\ gpAddr = [g \in Getters |-> 0]
    /\ gpEnt = [g \in Getters |-> 0]
    /\ gpRet = [g \in Getters |-> 0]
    /\ gpWith = [g \in Getters |-> {}]
    /\ nsweeps = 0

\* the registry at rest
RegIdle == RegNew

\* the later subsystems at rest
SecondIdle ==
    PipeIdle /\ LifeIdle /\ GrpcIdle /\ BackoffIdle /\ TunIdle /\ IterIdle
\* flog as the package's variable declarations leave it
LogNew ==
    /\ minLevel = LevelInfo
    /\ consumer = FALSE
    /\ logCh = <<>>
    /\ logOut = <<>>
    /\ nlogged = 0
    /\ logLost = {}
    /\ logSkip = {}
    /\ fPc = "none"
    /\ fatalId = 0
    /\ fFiltered = FALSE

\* flog at rest
LogIdle == LogNew

QConns == 1..NumQConns

\* QUIC connections as newConn and newConnWithContext make them
QuicNew ==
    /\ lnDone = FALSE
    /\ qCtx = [q \in QConns |-> FALSE]
    /\ qTerm = [q \in QConns |-> FALSE]
    /\ qClosePc = [q \in QConns |-> "idle"]
    /\ pingPc = [q \in QConns |-> "idle"]
    /\ pingRet = [q \in QConns |-> "none"]
    /\ pingDead = [q \in QConns |-> FALSE]
    /\ npings = 0

QuicIdle == qParent = [q \in QConns |-> FALSE] /\ QuicNew

StatSlots == 1..NumStatSlots
NoReport == [dropped |-> 0, increment |-> 0, queueDepth |-> 0, shown |-> FALSE]

\* the monitor as Client.Start starts it, over new connections
StatNew ==
    /\ pktDrops = [s \in StatSlots |-> 0]
    /\ pktQueue = [s \in StatSlots |-> 0]
    /\ lastDropped = 0
    /\ pressure = NoReport
    /\ statTicks = 0
    /\ nreplaced = 0

StatIdle == StatNew

\* a Client made by New: Start not yet called
CsNew ==
    /\ csPc = "init"
    /\ csItems = <<>>
    /\ csRet = "none"
    /\ csFailedAt = 0
    /\ csCtx = FALSE
    /\ csMonitor = FALSE
    /\ csWatcher = "off"

ClientStartIdle == csConf = 0 /\ CsNew

FourthIdle == QuicIdle /\ StatIdle /\ ClientStartIdle
ThirdIdle == RegIdle /\ LogIdle /\ FourthIdle
MoreIdle == SecondIdle /\ ThirdIdle
FirstIdle == ClientIdle /\ IptIdle /\ PoolIdle /\ ServerIdle

OthersIdleForClient == IptIdle /\ PoolIdle /\ ServerIdle /\ MoreIdle
OthersIdleForIpt == ClientIdle /\ PoolIdle /\ ServerIdle /\ MoreIdle
OthersIdleForPool == ClientIdle /\ IptIdle /\ ServerIdle /\ MoreIdle
OthersIdleForServer == ClientIdle /\ IptIdle /\ PoolIdle /\ MoreIdle
\* the two subsystems added last at rest
LastIdle == TunIdle /\ IterIdle /\ ThirdIdle
OthersIdleForPipe ==
    FirstIdle /\ LifeIdle /\ GrpcIdle /\ BackoffIdle /\ LastIdle
OthersIdleForLife ==
    FirstIdle /\ PipeIdle /\ GrpcIdle /\ BackoffIdle /\ LastIdle
OthersIdleForGrpc ==
    FirstIdle /\ PipeIdle /\ LifeIdle /\ BackoffIdle /\ LastIdle
OthersIdleForBackoff ==
    FirstIdle /\ PipeIdle /\ LifeIdle /\ GrpcIdle /\ LastIdle
OthersIdleForTun ==
    /\ FirstIdle /\ PipeIdle /\ LifeIdle /\ GrpcIdle /\ BackoffIdle /\ IterIdle
    /\ ThirdIdle
OthersIdleForIter ==
    /\ FirstIdle /\ PipeIdle /\ LifeIdle /\ GrpcIdle /\ BackoffIdle /\ TunIdle
    /\ ThirdIdle
OthersIdleForReg == FirstIdle /\ SecondIdle /\ LogIdle /\ FourthIdle
OthersIdleForLog == FirstIdle /\ SecondIdle /\ RegIdle /\ FourthIdle
OthersIdleForQuic ==
    FirstIdle /\ SecondIdle /\ RegIdle /\ LogIdle /\ StatIdle /\ ClientStartIdle
OthersIdleForStat ==
    FirstIdle /\ SecondIdle /\ RegIdle /\ LogIdle /\ QuicIdle /\ ClientStartIdle
OthersIdleForStart ==
    FirstIdle /\ SecondIdle /\ RegIdle /\ LogIdle /\ QuicIdle /\ StatIdle

(***************************************************************************)
(* Iptables manager (internal/gfwresist) and startServer (cmd/run)         *)
(***************************************************************************)

\* the checks Apply makes before it touches any rule
ApplyPrecheck == goos = "linux" /\ port >= MinPort /\ port <= MaxPort

\* iptables -A: the rule is appended to its chain
AddRule(inst, a) == [inst EXCEPT ![a] = @ + 1]

\* iptables -D: one matching rule is removed; there must be one
CanDelete(inst, a) == inst[a] > 0
DeleteRule(inst, a) == [inst EXCEPT ![a] = @ - 1]

\* Apply records a command in m.applied after its add has succeeded
RecordAlways(app, a, ok) == Append(app, a)
RecordApplied(app, a, ok) == IF ok THEN Append(app, a) ELSE app

\* the commands Cleanup walks over
AllCommands(app) == Cmds
CleanupList(app) == app

\* Apply is entered: it returns an error at once on a failed precheck
ApplyBegin ==
    /\ IF ApplyPrecheck
       THEN /\ iptPc' = "applying"
            /\ cmdIdx' = 1
            /\ UNCHANGED applyRet
       ELSE /\ applyRet' = "err"
            /\ UNCHANGED <<iptPc, cmdIdx>>
    /\ UNCHANGED <<goos, port, installed, pre, applied, cleanups, added,
                   deleted, failedAt, delFailed>>

\* Apply: one add command; a failure ends Apply with an error
ApplyCmd ==
    /\ iptPc = "applying"
    /\ LET a == Cmds[cmdIdx] IN
       \E ok \in BOOLEAN :
          /\ applied' = RecordApplied(applied, a, ok)
          /\ IF ok
             THEN /\ installed' = AddRule(installed, a)
                  /\ added' = Append(added, a)
                  /\ UNCHANGED failedAt
                  /\ IF cmdIdx = Len(Cmds)
                     THEN /\ iptPc' = "idle"
                          /\ applyRet' = "ok"
                          /\ cmdIdx' = 0
                     ELSE /\ cmdIdx' = cmdIdx + 1
                          /\ UNCHANGED <<iptPc, applyRet>>
             ELSE /\ failedAt' = cmdIdx
                  /\ iptPc' = "idle"
                  /\ applyRet' = "err"
                  /\ cmdIdx' = 0
                  /\ UNCHANGED <<installed, added>>
    /\ UNCHANGED <<goos, port, pre, cleanups, deleted, delFailed, autoIpt,
                   ssPc, deferred>>
    /\ UNCHANGED <<clientVars, poolVars, srvVars, moreVars>>

\* Cleanup is entered; with nothing to walk over it returns at once
CleanupBegin ==
    /\ IF Len(CleanupList(applied)) = 0
       THEN /\ cleanups' = cleanups + 1
            /\ UNCHANGED <<iptPc, cmdIdx>>
       ELSE /\ iptPc' = "cleaning"
            /\ cmdIdx' = 1
            /\ UNCHANGED cleanups
    /\ UNCHANGED <<goos, port, installed, pre, applied, applyRet, added,
                   deleted, failedAt, delFailed>>

\* Cleanup: one delete command; a failure is logged and the walk goes on
CleanupCmd ==
    /\ iptPc = "cleaning"
    /\ LET a == CleanupList(applied)[cmdIdx] IN
       /\ deleted' = Append(deleted, a)
       /\ \/ /\ CanDelete(installed, a)
             /\ installed' = DeleteRule(installed, a)
             /\ UNCHANGED delFailed
          \/ /\ delFailed' = TRUE
             /\ UNCHANGED installed
    /\ IF cmdIdx = Len(CleanupList(applied))
       THEN /\ iptPc' = "idle"
            /\ cmdIdx' = 0
            /\ cleanups' = cleanups + 1
       ELSE /\ cmdIdx' = cmdIdx + 1
            /\ UNCHANGED <<iptPc, cleanups>>
    /\ UNCHANGED <<goos, port, pre, applied, applyRet, added, failedAt,
                   autoIpt, ssPc, deferred>>
    /\ UNCHANGED <<clientVars, poolVars, srvVars, moreVars>>

\* a caller of the manager's API calls Apply once
CallApply ==
    /\ iptPc = "idle"
    /\ applyRet = "none"
    /\ ApplyBegin
    /\ UNCHANGED <<autoIpt, ssPc, deferred>>
    /\ UNCHANGED <<clientVars, poolVars, srvVars, moreVars>>

\* a caller of the manager's API calls Cleanup after Apply has returned
CallCleanup ==
    /\ iptPc = "idle"
    /\ applyRet # "none"
    /\ cleanups < MaxCleanups
    /\ CleanupBegin
    /\ UNCHANGED <<autoIpt, ssPc, deferred>>
    /\ UNCHANGED <<clientVars, poolVars, srvVars, moreVars>>

IptablesInit == ManagerInit /\ autoIpt = TRUE /\ OthersIdleForIpt

IptablesNext == CallApply \/ ApplyCmd \/ CallCleanup \/ CleanupCmd

SpecIptables == IptablesInit /\ [][IptablesNext]_vars

\* startServer: with auto_iptables the manager is created and Apply called
StartApply ==
    /\ ssPc = "start"
    /\ IF autoIpt
       THEN /\ ApplyBegin
            /\ ssPc' = "apply"
       ELSE /\ ssPc' = "new"
            /\ UNCHANGED <<goos, port, installed, pre, applied, iptPc, cmdIdx,
                           applyRet, cleanups, added, deleted, failedAt,
                           delFailed>>
    /\ UNCHANGED <<autoIpt, deferred>>
    /\ UNCHANGED <<clientVars, poolVars, srvVars, moreVars>>

\* startServer: Apply has returned; an error is logged as a warning, and
\* only on success is mgr.Cleanup deferred
StartAfterApply ==
    /\ ssPc = "apply"
    /\ iptPc = "idle"
    /\ applyRet # "none"
    /\ deferred' = (applyRet = "ok")
    /\ ssPc' = "new"
    /\ UNCHANGED <<goos, port, installed, pre, applied, iptPc, cmdIdx,
                   applyRet, cleanups, added, deleted, failedAt, delFailed,
                   autoIpt>>
    /\ UNCHANGED <<clientVars, poolVars, srvVars, moreVars>>

\* server.New: always returns a server and a nil error
ServerNewFails == FALSE

\* startServer: server.New, then server.Start is running
StartNew ==
    /\ ssPc = "new"
    /\ ssPc' = IF ServerNewFails THEN "fatal" ELSE "serving"
    /\ UNCHANGED <<goos, port, installed, pre, applied, iptPc, cmdIdx,
                   applyRet, cleanups, added, deleted, failedAt, delFailed,
                   autoIpt, deferred>>
    /\ UNCHANGED <<clientVars, poolVars, srvVars, moreVars>>

\* server.Start returns: an error (socket or listener could not be set up)
\* goes to flog.Fatalf, nil (after a shutdown signal) lets startServer return
StartReturns ==
    /\ ssPc = "serving"
    /\ \E err \in BOOLEAN : ssPc' = IF err THEN "fatal" ELSE "returning"
    /\ UNCHANGED <<goos, port, installed, pre, applied, iptPc, cmdIdx,
                   applyRet, cleanups, added, deleted, failedAt, delFailed,
                   autoIpt, deferred>>
    /\ UNCHANGED <<clientVars, poolVars, srvVars, moreVars>>

\* flog.Fatalf: every path ends in os.Exit(1); deferred calls are not run
Fatalf ==
    /\ ssPc = "fatal"
    /\ ssPc' = "exited"
    /\ UNCHANGED <<goos, port, installed, pre, applied, iptPc, cmdIdx,
                   applyRet, cleanups, added, deleted, failedAt, delFailed,
                   autoIpt, deferred>>
    /\ UNCHANGED <<clientVars, poolVars, srvVars, moreVars>>

\* startServer returns: the deferred Cleanup, if any, is run
StartReturn ==
    /\ ssPc = "returning"
    /\ IF deferred
       THEN /\ CleanupBegin
            /\ ssPc' = "deferred"
       ELSE /\ ssPc' = "exited"
            /\ UNCHANGED <<goos, port, installed, pre, applied, iptPc, cmdIdx,
                           applyRet, cleanups, added, deleted, failedAt,
                           delFailed>>
    /\ UNCHANGED <<autoIpt, deferred>>
    /\ UNCHANGED <<clientVars, poolVars, srvVars, moreVars>>

\* the deferred Cleanup has returned and the process ends
StartExit ==
    /\ ssPc = "deferred"
    /\ iptPc = "idle"
    /\ ssPc' = "exited"
    /\ UNCHANGED <<goos, port, installed, pre, applied, iptPc, cmdIdx,
                   applyRet, cleanups, added, deleted, failedAt, delFailed,
                   autoIpt, deferred>>
    /\ UNCHANGED <<clientVars, poolVars, srvVars, moreVars>>

StartServerInit == ManagerInit /\ autoIpt \in BOOLEAN /\ OthersIdleForIpt

StartServerNext ==
    \/ StartApply
    \/ ApplyCmd
    \/ StartAfterApply
    \/ StartNew
    \/ StartReturns
    \/ Fatalf
    \/ StartReturn
    \/ CleanupCmd
    \/ StartExit

SpecStartServer == StartServerInit /\ [][StartServerNext]_vars

(***************************************************************************)
(* Claims about the iptables manager and startServer                       *)
(***************************************************************************)

CleanedOnce == applyRet # "none" /\ iptPc = "idle" /\ cleanups = 1

NotReached == {Cmds[k] : k \in {j \in DOMAIN Cmds : failedAt # 0 /\ j >= failedAt}}

Range(q) == {q[i] : i \in DOMAIN q}

C4_CleanupOnExit == ssPc = "exited" /\ Len(added) > 0 => cleanups > 0

(***************************************************************************)
(* Client: connection supervisor (internal/client)                         *)
(***************************************************************************)

\* maxAttempts of newStrmWithRetry: the configured value, 5 when it is <= 0
MaxAttempts == IF cfgMaxRetry <= 0 THEN DefaultMaxAttempts ELSE cfgMaxRetry

\* Iterator.Next: advance the index, return the item it now points at
IterNext == (iterIdx + 1) % nslots

\* Conn.Ping(false): nil exactly when the connection is still live
PingOk(id) == connSt[id] = "open"

\* ages of the per-slot timestamps, capped where no comparison can tell
Older(a, cap) == IF a < cap THEN a + 1 ELSE a

\* a fresh failure spoils every newStrm call that is under way
InCall(c) == pc[c] \notin {"idle", "ok", "err"}
Spoil == [c \in Callers |-> IF InCall(c) THEN FALSE ELSE clean[c]]

\* the bound check at the head of newStrmWithRetry
AttemptsExhaustedOffByOne(a) == a > MaxAttempts
AttemptsExhausted(a) == a >= MaxAttempts

\* newStrmWithRetry(a): give up with an error, or go on to call newConn
EnterRetry(c, a) ==
    /\ attempt' = [attempt EXCEPT ![c] = a]
    /\ IF AttemptsExhausted(a)
       THEN /\ pc' = [pc EXCEPT ![c] = "err"]
            /\ UNCHANGED tries
       ELSE /\ pc' = [pc EXCEPT ![c] = "lock"]
            /\ tries' = [tries EXCEPT ![c] = @ + 1]

\* newStrm: newStrmWithRetry(0)
NewStrm(c) ==
    /\ pc[c] = "idle"
    /\ EnterRetry(c, 0)
    /\ UNCHANGED <<callVars, nslots, cfgMaxRetry, iterIdx, mu, slotConn, hcAge, tcpfAge,
                   connSt, nextId, ctxDone, shutIdx, tc, got, clean, reached>>

\* c.mu.Lock()
MuFreeBroken == TRUE
MuFree == mu = 0

\* sendTCPF when the refresh interval has passed; a failure is only logged
TcpfStampAlways(s, sent) == [tcpfAge EXCEPT ![s] = 0]
TcpfAfterSend(s, sent) ==
    IF tcpfAge[s] >= TcpfEvery /\ sent
    THEN [tcpfAge EXCEPT ![s] = 0]
    ELSE tcpfAge

\* the errors of newConn: createConn failed on a slot without a connection,
\* and iter.Next() handed it no slot
CreateError == "failed to create initial connection"
NoItemError == "no available connections"

\* what became of the refresh: not due, sent, or tried and failed
TcpfOutcome(s, sent) ==
    IF tcpfAge[s] < TcpfEvery THEN "notdue"
    ELSE IF sent THEN "sent" ELSE "failed"

\* newConn up to the health check: take the lock, pick the next slot,
\* refresh the TCP flags when due (a nil connection is created first)
NewConnLock(c) ==
    /\ pc[c] = "lock"
    /\ MuFree
    /\ IF nslots = 0
       THEN /\ EnterRetry(c, attempt[c] + 1)
            /\ clean' = [clean EXCEPT ![c] = FALSE]
            /\ ncErr' = [ncErr EXCEPT ![c] = NoItemError]
            /\ UNCHANGED <<iterIdx, slotConn, connSt, nextId, hcAge, tcpfAge,
                           mu, tc, tcpfRes>>
       ELSE /\ iterIdx' = IterNext
            /\ LET s == IterNext + 1 IN
               IF slotConn[s] = 0
               THEN \/ /\ nextId <= MaxConns
                       /\ ~ctxDone
                       /\ slotConn' = [slotConn EXCEPT ![s] = nextId]
                       /\ connSt' = [connSt EXCEPT ![nextId] = "open"]
                       /\ nextId' = nextId + 1
                       /\ hcAge' = [hcAge EXCEPT ![s] = 0]
                       /\ tcpfAge' = [tcpfAge EXCEPT ![s] = 0]
                       /\ mu' = c
                       /\ tc' = [tc EXCEPT ![c] = s]
                       /\ pc' = [pc EXCEPT ![c] = "health"]
                       /\ ncErr' = [ncErr EXCEPT ![c] = "none"]
                       /\ tcpfRes' = [tcpfRes EXCEPT ![c] = "notdue"]
                       /\ UNCHANGED <<attempt, tries, clean>>
                    \/ /\ EnterRetry(c, attempt[c] + 1)
                       /\ clean' = [clean EXCEPT ![c] = FALSE]
                       /\ ncErr' = [ncErr EXCEPT ![c] = CreateError]
                       /\ UNCHANGED <<slotConn, connSt, nextId, hcAge,
                                      tcpfAge, mu, tc, tcpfRes>>
               ELSE /\ mu' = c
                    /\ tc' = [tc EXCEPT ![c] = s]
                    /\ pc' = [pc EXCEPT ![c] = "health"]
                    /\ \E sent \in {PingOk(slotConn[s]), FALSE} :
                           /\ tcpfAge' = TcpfAfterSend(s, sent)
                           /\ tcpfRes' = [tcpfRes EXCEPT
                                             ![c] = TcpfOutcome(s, sent)]
                    /\ ncErr' = [ncErr EXCEPT ![c] = "none"]
                    /\ UNCHANGED <<slotConn, connSt, nextId, hcAge, attempt,
                                   tries, clean>>
    /\ UNCHANGED <<nslots, cfgMaxRetry, ctxDone, shutIdx, got, reached>>

\* newStrmWithRetry(attempt) calls newConn(attempt > 0)
ForceAlways(a) == TRUE
ForceCheck(a) == a > 0

\* the health check is run when forced or when the interval has passed
CheckUnforced(force, age) == age >= HealthEvery
CheckDue(force, age) == force \/ age >= HealthEvery

\* newConn: health check; a live or unchecked connection is returned
HealthCheck(c) ==
    /\ pc[c] = "health"
    /\ LET s == tc[c]
           id == slotConn[s]
       IN
       /\ reached' = [reached EXCEPT ![c] =
                         IF @ = 0 /\ ~PingOk(id) THEN id ELSE @]
       /\ IF CheckDue(ForceCheck(attempt[c]), hcAge[s])
          THEN /\ hcAge' = [hcAge EXCEPT ![s] = 0]
               /\ IF PingOk(id)
                  THEN /\ got' = [got EXCEPT ![c] = id]
                       /\ mu' = 0
                       /\ tc' = [tc EXCEPT ![c] = 0]
                       /\ pc' = [pc EXCEPT ![c] = "open"]
                  ELSE /\ pc' = [pc EXCEPT ![c] = "closing"]
                       /\ UNCHANGED <<got, mu, tc>>
          ELSE /\ got' = [got EXCEPT ![c] = id]
               /\ mu' = 0
               /\ tc' = [tc EXCEPT ![c] = 0]
               /\ pc' = [pc EXCEPT ![c] = "open"]
               /\ UNCHANGED hcAge
    /\ tcpfRes' = [tcpfRes EXCEPT ![c] = "none"]
    /\ UNCHANGED <<ncErr, nslots, cfgMaxRetry, iterIdx, slotConn, tcpfAge,
                   connSt, nextId, ctxDone, shutIdx, attempt, tries, clean>>

\* newConn: the ping failed; close the lost connection and enter createConn,
\* which is refused when the context is already cancelled
CloseLost(c) ==
    /\ pc[c] = "closing"
    /\ connSt' = [connSt EXCEPT ![slotConn[tc[c]]] = "closed"]
    /\ pc' = [pc EXCEPT ![c] = IF ctxDone THEN "redial_cancelled" ELSE "redial"]
    /\ UNCHANGED <<callVars, nslots, cfgMaxRetry, iterIdx, mu, slotConn, hcAge, tcpfAge,
                   nextId, ctxDone, shutIdx, attempt, tc, got, tries, clean, reached>>

\* newConn: createConn after a lost connection returns; the dial is bound
\* by its own 30 s timeout, not by the client's context
Redial(c) ==
    /\ pc[c] \in {"redial", "redial_cancelled"}
    /\ LET s == tc[c] IN
       \/ /\ nextId <= MaxConns
          /\ pc[c] = "redial"
          /\ slotConn' = [slotConn EXCEPT ![s] = nextId]
          /\ connSt' = [connSt EXCEPT ![nextId] = "open"]
          /\ nextId' = nextId + 1
          /\ hcAge' = [hcAge EXCEPT ![s] = 0]
          /\ tcpfAge' = [tcpfAge EXCEPT ![s] = 0]
          /\ got' = [got EXCEPT ![c] = nextId]
          /\ pc' = [pc EXCEPT ![c] = "open"]
          /\ UNCHANGED <<attempt, tries, clean, ncErr>>
       \/ /\ EnterRetry(c, attempt[c] + 1)
          /\ clean' = [clean EXCEPT ![c] = FALSE]
          /\ ncErr' = [ncErr EXCEPT ![c] = "failed to recreate connection"]
          /\ UNCHANGED <<slotConn, connSt, nextId, hcAge, tcpfAge, got>>
    /\ mu' = 0
    /\ tc' = [tc EXCEPT ![c] = 0]
    /\ UNCHANGED <<tcpfRes, nslots, cfgMaxRetry, iterIdx, ctxDone, shutIdx,
                   reached>>

\* newStrmWithRetry: conn.OpenStrm(); a failure goes to the next attempt
OpenStrm(c) ==
    /\ pc[c] = "open"
    /\ \/ /\ PingOk(got[c])
          /\ pc' = [pc EXCEPT ![c] = "ok"]
          /\ UNCHANGED <<attempt, tries, clean>>
       \/ /\ EnterRetry(c, attempt[c] + 1)
          /\ clean' = [clean EXCEPT ![c] = IF PingOk(got[c]) THEN FALSE ELSE @]
    /\ got' = [got EXCEPT ![c] = 0]
    /\ UNCHANGED <<callVars, nslots, cfgMaxRetry, iterIdx, mu, slotConn, hcAge, tcpfAge,
                   connSt, nextId, ctxDone, shutIdx, tc, reached>>

\* environment: a live transport connection dies
KillConn(id) ==
    /\ connSt[id] = "open"
    /\ connSt' = [connSt EXCEPT ![id] = "dead"]
    /\ clean' = Spoil
    /\ UNCHANGED <<callVars, nslots, cfgMaxRetry, iterIdx, mu, slotConn, hcAge, tcpfAge,
                   nextId, ctxDone, shutIdx, pc, attempt, tc, got, tries,
                   reached>>

\* environment: time passes
Tick ==
    /\ \E s \in Slots : hcAge[s] < HealthEvery \/ tcpfAge[s] < TcpfEvery
    /\ hcAge' = [s \in 1..MaxSlots |->
                    IF s <= nslots THEN Older(hcAge[s], HealthEvery) ELSE 0]
    /\ tcpfAge' = [s \in 1..MaxSlots |->
                      IF s <= nslots THEN Older(tcpfAge[s], TcpfEvery) ELSE 0]
    /\ UNCHANGED <<callVars, nslots, cfgMaxRetry, iterIdx, mu, slotConn, connSt, nextId,
                   ctxDone, shutIdx, pc, attempt, tc, got, tries, clean, reached>>

\* the context passed to Client.Start is cancelled
CancelCtx ==
    /\ ~ctxDone
    /\ ctxDone' = TRUE
    /\ shutIdx' = 1
    /\ UNCHANGED <<callVars, nslots, cfgMaxRetry, iterIdx, mu, slotConn, hcAge, tcpfAge,
                   connSt, nextId, pc, attempt, tc, got, tries, clean,
                   reached>>

\* timedConn.close(): close the slot's connection if it has one
TimedConnClose(s) ==
    IF slotConn[s] # 0
    THEN [connSt EXCEPT ![slotConn[s]] = "closed"]
    ELSE connSt

\* Client.Start's shutdown goroutine: after <-ctx.Done(), close slot by slot
ShutdownClose ==
    /\ ctxDone
    /\ shutIdx \in 1..nslots
    /\ connSt' = TimedConnClose(shutIdx)
    /\ clean' = IF connSt' # connSt THEN Spoil ELSE clean
    /\ shutIdx' = shutIdx + 1
    /\ UNCHANGED <<callVars, nslots, cfgMaxRetry, iterIdx, mu, slotConn, hcAge, tcpfAge,
                   nextId, ctxDone, pc, attempt, tc, got, tries, reached>>

ShutdownDone == ctxDone /\ shutIdx = nslots + 1

ClientStep ==
    \/ \E c \in Callers : NewStrm(c)
    \/ \E c \in Callers : NewConnLock(c)
    \/ \E c \in Callers : HealthCheck(c)
    \/ \E c \in Callers : CloseLost(c)
    \/ \E c \in Callers : Redial(c)
    \/ \E c \in Callers : OpenStrm(c)
    \/ \E id \in ConnIds : KillConn(id)
    \/ Tick
    \/ CancelCtx
    \/ ShutdownClose

\* concurrent callers, each making one newStrm call, with a configured bound
ClientInit == ClientStarted /\ OthersIdleForClient /\ cfgMaxRetry \in 1..MaxCfgRetry

ClientNext == ClientStep /\ UNCHANGED <<iptVars, poolVars, srvVars, moreVars>>

SpecClient == ClientInit /\ [][ClientNext]_vars

\* the caller makes its next newStrm call
Again(c) ==
    /\ pc[c] \in {"ok", "err"}
    /\ pc' = [pc EXCEPT ![c] = "idle"]
    /\ attempt' = [attempt EXCEPT ![c] = 0]
    /\ tries' = [tries EXCEPT ![c] = 0]
    /\ clean' = [clean EXCEPT ![c] = TRUE]
    /\ reached' = [reached EXCEPT ![c] = 0]
    /\ ncErr' = [ncErr EXCEPT ![c] = "none"]
    /\ UNCHANGED <<tcpfRes, nslots, cfgMaxRetry, iterIdx, mu, slotConn, hcAge, tcpfAge,
                   connSt, nextId, ctxDone, shutIdx, tc, got>>

\* one caller making newStrm calls one after the other, with the configured
\* bound or the default one
RetryInit == ClientStarted /\ OthersIdleForClient /\ cfgMaxRetry \in 0..MaxCfgRetry

RetryStep ==
    \/ NewStrm(1)
    \/ NewConnLock(1)
    \/ HealthCheck(1)
    \/ CloseLost(1)
    \/ Redial(1)
    \/ OpenStrm(1)
    \/ Again(1)
    \/ \E id \in ConnIds : KillConn(id)
    \/ Tick
    \/ CancelCtx
    \/ ShutdownClose

RetryNext == RetryStep /\ UNCHANGED <<iptVars, poolVars, srvVars, moreVars>>

SpecRetry == RetryInit /\ [][RetryNext]_vars

(***************************************************************************)
(* Claims about the client                                                 *)
(***************************************************************************)

\* C1: a newStrm call never makes more than max_retry_attempts attempts (5
\* when the configured value is <= 0), and it returns an error exactly when
\* that many attempts have failed one after the other.
C1_BoundedRetry ==
    \A c \in Callers :
        /\ tries[c] <= MaxAttempts
        /\ pc[c] = "err" => tries[c] = MaxAttempts /\ attempt[c] = MaxAttempts

C1_Witness ==
    \E c \in Callers :
        pc[c] = "err" /\ cfgMaxRetry = 0 /\ tries[c] = DefaultMaxAttempts

Reconnecting(s) ==
    {c \in Callers :
        pc[c] \in {"closing", "redial", "redial_cancelled"} /\ tc[c] = s}

C6_OneReconnect == \A s \in Slots : Cardinality(Reconnecting(s)) <= 1

C6_Witness ==
    \E c, d \in Callers : c # d /\ pc[c] = "redial" /\ pc[d] = "lock"

\* C7: once the shutdown goroutine has closed the last slot, no slot holds
\* a connection that is not closed.
C7_ShutdownClosesAll ==
    ShutdownDone =>
        \A s \in Slots : slotConn[s] = 0 \/ connSt[slotConn[s]] = "closed"

(***************************************************************************)
(* Buffer pool (internal/pkg/buffer)                                       *)
(***************************************************************************)

Pooled == {b \in BufIds : bufSt[b] = "pooled"}

\* what sync.Pool.Get can hand out: any pooled buffer, or (0) the result of
\* the pool's New function
PoolGetChoices == Pooled \cup (IF nextBuf <= MaxBufs THEN {0} ELSE {})

\* (*bufp)[:n] panics when n exceeds the capacity; -1 stands for the panic
SliceTo(cap, n) == IF n <= cap THEN n ELSE -1

\* Pool.Put keeps a buffer only if its capacity reaches the default size
PutKeepsAny(cap) == TRUE
PutKeeps(cap) == cap >= defaultSize

\* Pool.Get: take a buffer from the sync.Pool and slice it to defaultSize
Get ==
    /\ \E src \in PoolGetChoices :
          LET b == IF src = 0 THEN nextBuf ELSE src
              cap == IF src = 0 THEN defaultSize ELSE bufCap[src]
              n == SliceTo(cap, defaultSize)
          IN
          /\ nextBuf' = IF src = 0 THEN nextBuf + 1 ELSE nextBuf
          /\ bufCap' = [bufCap EXCEPT ![b] = cap]
          /\ bufLen' = [bufLen EXCEPT ![b] = IF n = -1 THEN 0 ELSE n]
          /\ bufSt' = [bufSt EXCEPT ![b] = IF n = -1 THEN "gone" ELSE "out"]
          /\ lastOp' = [op |-> "Get", buf |-> b, len |-> n, fresh |-> FALSE]
    /\ UNCHANGED <<defaultSize, over>>
    /\ UNCHANGED <<clientVars, iptVars, srvVars, moreVars>>

\* Pool.GetN(n): reuse the pooled buffer if its capacity allows, else put it
\* back and allocate n bytes
GetN(n) ==
    /\ \E src \in PoolGetChoices :
          LET b == IF src = 0 THEN nextBuf ELSE src
              cap == IF src = 0 THEN defaultSize ELSE bufCap[src]
              after == IF src = 0 THEN nextBuf + 1 ELSE nextBuf
          IN
          IF cap >= n
          THEN /\ nextBuf' = after
               /\ bufCap' = [bufCap EXCEPT ![b] = cap]
               /\ bufLen' = [bufLen EXCEPT ![b] = n]
               /\ bufSt' = [bufSt EXCEPT ![b] = "out"]
               /\ over' = [over EXCEPT ![b] = n > defaultSize]
               /\ lastOp' = [op |-> "GetN", buf |-> b, len |-> n,
                             fresh |-> FALSE]
          ELSE /\ after <= MaxBufs
               /\ nextBuf' = after + 1
               /\ bufCap' = [bufCap EXCEPT ![b] = cap, ![after] = n]
               /\ bufLen' = [bufLen EXCEPT
                                ![b] = IF src = 0 THEN defaultSize ELSE @,
                                ![after] = n]
               /\ bufSt' = [bufSt EXCEPT ![b] = "pooled", ![after] = "out"]
               /\ over' = [over EXCEPT ![after] = n > defaultSize]
               /\ lastOp' = [op |-> "GetN", buf |-> after, len |-> n,
                             fresh |-> TRUE]
    /\ UNCHANGED defaultSize
    /\ UNCHANGED <<clientVars, iptVars, srvVars, moreVars>>

\* Pool.Put: discard an undersized buffer, else restore its length and pool it
Put(b) ==
    /\ bufSt[b] = "out"
    /\ IF PutKeeps(bufCap[b])
       THEN /\ bufLen' = [bufLen EXCEPT ![b] = SliceTo(bufCap[b], defaultSize)]
            /\ bufSt' = [bufSt EXCEPT ![b] = "pooled"]
       ELSE /\ bufSt' = [bufSt EXCEPT ![b] = "gone"]
            /\ UNCHANGED bufLen
    /\ UNCHANGED <<defaultSize, bufCap, over, nextBuf, lastOp>>
    /\ UNCHANGED <<clientVars, iptVars, srvVars, moreVars>>

\* the holder slices its buffer to another length: *bufp = (*bufp)[:k]
Reslice(b, k) ==
    /\ bufSt[b] = "out"
    /\ k <= bufCap[b]
    /\ k # bufLen[b]
    /\ bufLen' = [bufLen EXCEPT ![b] = k]
    /\ UNCHANGED <<defaultSize, bufSt, bufCap, over, nextBuf, lastOp>>
    /\ UNCHANGED <<clientVars, iptVars, srvVars, moreVars>>

\* the holder drops a prefix of its buffer: *bufp = (*bufp)[k:]
SliceFrom(b, k) ==
    /\ bufSt[b] = "out"
    /\ k >= 1
    /\ k <= bufLen[b]
    /\ bufLen' = [bufLen EXCEPT ![b] = @ - k]
    /\ bufCap' = [bufCap EXCEPT ![b] = @ - k]
    /\ UNCHANGED <<defaultSize, bufSt, over, nextBuf, lastOp>>
    /\ UNCHANGED <<clientVars, iptVars, srvVars, moreVars>>

\* a caller allocates a buffer of its own, which it may later Put
Alloc(k) ==
    /\ nextBuf <= MaxBufs
    /\ nextBuf' = nextBuf + 1
    /\ bufSt' = [bufSt EXCEPT ![nextBuf] = "out"]
    /\ bufCap' = [bufCap EXCEPT ![nextBuf] = k]
    /\ bufLen' = [bufLen EXCEPT ![nextBuf] = k]
    /\ UNCHANGED <<defaultSize, over, lastOp>>
    /\ UNCHANGED <<clientVars, iptVars, srvVars, moreVars>>

PoolInit ==
    /\ defaultSize \in 1..(MaxSize - 1)
    /\ PoolNew
    /\ OthersIdleForPool

PoolNext ==
    \/ Get
    \/ \E n \in 0..MaxSize : GetN(n)
    \/ \E b \in BufIds : Put(b)
    \/ \E b \in BufIds, k \in 0..MaxSize : Reslice(b, k)
    \/ \E b \in BufIds, k \in 1..MaxSize : SliceFrom(b, k)
    \/ \E k \in 1..MaxSize : Alloc(k)

SpecPool == PoolInit /\ [][PoolNext]_vars

\* C8: every buffer Get returns has length exactly defaultSize (Get never
\* fails on a pooled buffer), whatever was Put before.
C8_GetLength == lastOp.op = "Get" => lastOp.len = defaultSize

C8_Witness ==
    /\ lastOp.op = "Get"
    /\ lastOp.len = defaultSize
    /\ \E b \in BufIds : bufSt[b] = "gone" /\ bufCap[b] < defaultSize
    /\ \E b \in BufIds : bufSt[b] = "out" /\ b = lastOp.buf /\ b < nextBuf - 1

\* C9: a buffer GetN(n) returned for an n above the pool's default size was
\* freshly allocated and is never in the pool afterwards.
C9_OversizedBypass ==
    /\ lastOp.op = "GetN" /\ lastOp.len > defaultSize => lastOp.fresh
    /\ \A b \in BufIds : over[b] => bufSt[b] # "pooled"

(***************************************************************************)
(* Server: stream semaphore (internal/server)                              *)
(***************************************************************************)

Running == {t \in Streams : strmSt[t] = "running"}

\* handleConn accepts a stream
AcceptStrm(t) ==
    /\ strmSt[t] = "new"
    /\ ~srvDone
    /\ strmSt' = [strmSt EXCEPT ![t] = "waiting"]
    /\ UNCHANGED <<maxStreams, semCap, semHeld, srvDone>>
    /\ UNCHANGED <<clientVars, iptVars, poolVars, moreVars>>

\* the semaphore is acquired, then the stream's handler is started; with a
\* nil semaphore the handler is started at once
StartHandler(t) ==
    /\ strmSt[t] = "waiting"
    /\ IF semCap = 0
       THEN UNCHANGED semHeld
       ELSE /\ semHeld < semCap
            /\ semHeld' = semHeld + 1
    /\ strmSt' = [strmSt EXCEPT ![t] = "running"]
    /\ UNCHANGED <<maxStreams, semCap, srvDone>>
    /\ UNCHANGED <<clientVars, iptVars, poolVars, moreVars>>

\* the handler finishes and releases the semaphore
FinishHandler(t) ==
    /\ strmSt[t] = "running"
    /\ strmSt' = [strmSt EXCEPT ![t] = "done"]
    /\ semHeld' = IF semCap = 0 THEN semHeld ELSE semHeld - 1
    /\ UNCHANGED <<maxStreams, semCap, srvDone>>
    /\ UNCHANGED <<clientVars, iptVars, poolVars, moreVars>>

\* the connection is shutting down
CancelConn ==
    /\ ~srvDone
    /\ srvDone' = TRUE
    /\ UNCHANGED <<maxStreams, semCap, semHeld, strmSt>>
    /\ UNCHANGED <<clientVars, iptVars, poolVars, moreVars>>

\* acquisition would block and the connection is shutting down: the stream
\* is dropped
DropStrm(t) ==
    /\ strmSt[t] = "waiting"
    /\ srvDone
    /\ semCap # 0
    /\ semHeld = semCap
    /\ strmSt' = [strmSt EXCEPT ![t] = "dropped"]
    /\ UNCHANGED <<maxStreams, semCap, semHeld, srvDone>>
    /\ UNCHANGED <<clientVars, iptVars, poolVars, moreVars>>

ServerInit ==
    /\ maxStreams \in 0..MaxK
    /\ ServerNew
    /\ OthersIdleForServer

ServerNext ==
    \/ \E t \in Streams : AcceptStrm(t)
    \/ \E t \in Streams : StartHandler(t)
    \/ \E t \in Streams : FinishHandler(t)
    \/ CancelConn
    \/ \E t \in Streams : DropStrm(t)

SpecServer == ServerInit /\ [][ServerNext]_vars

\* C10: with max_concurrent_streams = k > 0 at most k handlers run at any
\* time, and a handler is started only in a state with fewer than k running;
\* with k = 0 the semaphore is nil and a waiting stream's handler can always
\* be started.
C10_StreamCap ==
    [][/\ maxStreams > 0 => Cardinality(Running') <= maxStreams
       /\ \A t \in Streams :
             (maxStreams > 0 /\ strmSt[t] # "running" /\ strmSt'[t] = "running")
                => Cardinality(Running) < maxStreams
       /\ \A t \in Streams :
             (maxStreams = 0 /\ strmSt'[t] = "waiting") => semCap' = 0
      ]_vars

C10_Witness ==
    /\ maxStreams = 2
    /\ Cardinality(Running) = 2
    /\ \E t \in Streams : strmSt[t] = "waiting"
    /\ \E t \in Streams : strmSt[t] = "done"

(***************************************************************************)
(* Send pipeline: a bounded queue of pending packets, submit, and the      *)
(* worker tasks that dequeue and inject                                    *)
(***************************************************************************)

Workers == 1..nworkers

\* the packets the workers have in hand
InHand == {held[w] : w \in Workers} \ {0}

\* submit finds no room in the queue
QueueFullOffByOne(q) == Len(q) > sqCap
QueueFull(q) == Len(q) >= sqCap

\* submit(payload, dst): enqueue when there is room, else drop and count;
\* it never waits
PipeSubmit ==
    /\ nsub < MaxSubmits
    /\ nsub' = nsub + 1
    /\ IF QueueFull(sq)
       THEN /\ dropped' = dropped + 1
            /\ fullDrops' = fullDrops + 1
            /\ sq' = sq
       ELSE /\ sq' = Append(sq, nsub + 1)
            /\ UNCHANGED <<dropped, fullDrops>>
    /\ UNCHANGED <<sqCap, nworkers, held, tryNo, blocked, openedAt, injected>>
    /\ UNCHANGED allButPipe

\* a worker with nothing in hand takes the oldest packet off the queue
PipeDequeue(w) ==
    /\ held[w] = 0
    /\ sq # <<>>
    /\ held' = [held EXCEPT ![w] = Head(sq)]
    /\ tryNo' = [tryNo EXCEPT ![w] = 0]
    /\ sq' = Tail(sq)
    /\ UNCHANGED <<sqCap, nworkers, dropped, fullDrops, blocked, openedAt,
                   nsub, injected>>
    /\ UNCHANGED allButPipe

\* the injection of the held packet succeeds; a blocked path lets nothing
\* through and the worker waits in the call
PipeInject(w) ==
    /\ held[w] # 0
    /\ ~blocked
    /\ injected' = injected + 1
    /\ held' = [held EXCEPT ![w] = 0]
    /\ UNCHANGED <<sqCap, nworkers, sq, dropped, fullDrops, tryNo, blocked,
                   openedAt, nsub>>
    /\ UNCHANGED allButPipe

\* the injection fails: retry after the backoff, and after max_retries
\* discard the packet and count it
PipeInjectFails(w) ==
    /\ held[w] # 0
    /\ ~blocked
    /\ IF tryNo[w] < MaxInjectRetries
       THEN /\ tryNo' = [tryNo EXCEPT ![w] = @ + 1]
            /\ UNCHANGED <<held, dropped>>
       ELSE /\ held' = [held EXCEPT ![w] = 0]
            /\ dropped' = dropped + 1
            /\ UNCHANGED tryNo
    /\ UNCHANGED <<sqCap, nworkers, sq, fullDrops, blocked, openedAt, nsub,
                   injected>>
    /\ UNCHANGED allButPipe

\* the injection path is unblocked
PipeUnblock ==
    /\ blocked
    /\ blocked' = FALSE
    /\ openedAt' = nsub
    /\ UNCHANGED <<sqCap, nworkers, sq, dropped, fullDrops, held, tryNo, nsub,
                   injected>>
    /\ UNCHANGED allButPipe

PipeInit ==
    /\ sqCap \in 1..MaxQueue
    /\ nworkers \in 1..MaxWorkers
    /\ blocked \in BOOLEAN
    /\ PipeNew
    /\ OthersIdleForPipe

PipeNext ==
    \/ PipeSubmit
    \/ \E w \in Workers : PipeDequeue(w)
    \/ \E w \in Workers : PipeInject(w)
    \/ \E w \in Workers : PipeInjectFails(w)
    \/ PipeUnblock

SpecPipe == PipeInit /\ [][PipeNext]_vars

(***************************************************************************)
(* Send pipeline: claims                                                   *)
(***************************************************************************)

PipeAccounting ==
    /\ Len(sq) <= sqCap
    /\ nsub = dropped + Len(sq) + Cardinality(InHand) + injected
    /\ (nsub < MaxSubmits => ENABLED PipeSubmit)
    /\ (blocked /\ openedAt = -1 =>
            /\ dropped = fullDrops
            /\ injected = 0
            /\ (nsub >= sqCap + nworkers =>
                    /\ dropped >= nsub - sqCap - nworkers
                    /\ dropped <= nsub - sqCap)
            /\ (InHand = {} /\ nsub >= sqCap => dropped = nsub - sqCap))
    /\ (sq = <<>> /\ InHand = {} /\ dropped = fullDrops =>
            injected = nsub - fullDrops)

\* a submit step either enqueues the packet or drops it and adds exactly one
\* to the dropped counter
PipeSubmitStep ==
    nsub' = nsub + 1 =>
        \/ Len(sq) < sqCap /\ sq' = Append(sq, nsub') /\ dropped' = dropped
        \/ Len(sq) = sqCap /\ sq' = sq /\ dropped' = dropped + 1

Supported(p) == p \in {"kcp", "quic"}

\* wg.Wait() returns
WgZeroEarly == TRUE
WgZero == wg = 0

\* Start up to wg.Wait(): socket.New and Listen can fail, an unsupported
\* protocol does fail, and Start then returns the error; otherwise the
\* sweeper (with pooling) and the listen goroutine are started
StartSetup ==
    /\ stPc = "init"
    /\ \/ /\ stPc' = "failed"
          /\ UNCHANGED <<listenPc, sweeper, wg>>
       \/ /\ Supported(lproto)
          /\ stPc' = "waiting"
          /\ listenPc' = "top"
          /\ sweeper' = IF pooling THEN "running" ELSE "off"
          /\ wg' = IF pooling THEN 2 ELSE 1
    /\ UNCHANGED <<lproto, pooling, stCtx, hSt, poolEnt, openPools, poolsMade>>
    /\ UNCHANGED allButLife

\* the signal goroutine: SIGINT or SIGTERM arrives and it calls cancel()
Signal ==
    /\ stPc \in {"init", "waiting"}
    /\ ~stCtx
    /\ stCtx' = TRUE
    /\ UNCHANGED <<lproto, pooling, stPc, listenPc, hSt, sweeper, poolEnt,
                   openPools, poolsMade, wg>>
    /\ UNCHANGED allButLife

\* listen, top of the loop: return when the context is done, else Accept
ListenTop ==
    /\ listenPc = "top"
    /\ IF stCtx
       THEN listenPc' = "done" /\ wg' = wg - 1
       ELSE listenPc' = "accepting" /\ wg' = wg
    /\ UNCHANGED <<lproto, pooling, stPc, stCtx, hSt, sweeper, poolEnt,
                   openPools, poolsMade>>
    /\ UNCHANGED allButLife

\* Accept returns a connection: its handler goroutine is started
AcceptConn(h) ==
    /\ listenPc = "accepting"
    /\ hSt[h] = "none"
    /\ \A g \in LConns : g < h => hSt[g] # "none"
    /\ hSt' = [hSt EXCEPT ![h] = "running"]
    /\ wg' = wg + 1
    /\ listenPc' = "top"
    /\ UNCHANGED <<lproto, pooling, stPc, stCtx, sweeper, poolEnt, openPools,
                   poolsMade>>
    /\ UNCHANGED allButLife

\* Accept returns an error (its timeout ran out or the listener saw the
\* cancellation): listen returns when the context is done, else continues
AcceptErr ==
    /\ listenPc = "accepting"
    /\ IF stCtx
       THEN listenPc' = "done" /\ wg' = wg - 1
       ELSE listenPc' = "top" /\ wg' = wg
    /\ UNCHANGED <<lproto, pooling, stPc, stCtx, hSt, sweeper, poolEnt,
                   openPools, poolsMade>>
    /\ UNCHANGED allButLife

\* getConnPool in a handler: a pool is created for an address without one
HandlerGetPool(h, a) ==
    /\ hSt[h] = "running"
    /\ pooling
    /\ poolEnt[a] = "none"
    /\ poolsMade < MaxPoolsMade
    /\ poolEnt' = [poolEnt EXCEPT ![a] = "open"]
    /\ openPools' = openPools + 1
    /\ poolsMade' = poolsMade + 1
    /\ UNCHANGED <<lproto, pooling, stPc, stCtx, listenPc, hSt, sweeper, wg>>
    /\ UNCHANGED allButLife

\* a handler returns because its connection ended
HandlerEnds(h) ==
    /\ hSt[h] = "running"
    /\ ~stCtx
    /\ hSt' = [hSt EXCEPT ![h] = "done"]
    /\ wg' = wg - 1
    /\ UNCHANGED <<lproto, pooling, stPc, stCtx, listenPc, sweeper, poolEnt,
                   openPools, poolsMade>>
    /\ UNCHANGED allButLife

\* a handler returns because the context is done
HandlerCancelled(h) ==
    /\ hSt[h] = "running"
    /\ stCtx
    /\ hSt' = [hSt EXCEPT ![h] = "done"]
    /\ wg' = wg - 1
    /\ UNCHANGED <<lproto, pooling, stPc, stCtx, listenPc, sweeper, poolEnt,
                   openPools, poolsMade>>
    /\ UNCHANGED allButLife

\* cleanupConnPools, a tick: the pools idle for too long are closed and
\* deleted from the map
SweeperTick(S) ==
    /\ sweeper = "running"
    /\ S # {}
    /\ \A a \in S : poolEnt[a] = "open"
    /\ poolEnt' = [a \in Addrs |-> IF a \in S THEN "none" ELSE poolEnt[a]]
    /\ openPools' = openPools - Cardinality(S)
    /\ UNCHANGED <<lproto, pooling, stPc, stCtx, listenPc, hSt, sweeper,
                   poolsMade, wg>>
    /\ UNCHANGED allButLife

\* cleanupConnPools returns when the context is done
SweeperStop ==
    /\ sweeper = "running"
    /\ stCtx
    /\ sweeper' = "done"
    /\ wg' = wg - 1
    /\ UNCHANGED <<lproto, pooling, stPc, stCtx, listenPc, hSt, poolEnt,
                   openPools, poolsMade>>
    /\ UNCHANGED allButLife

\* Start after wg.Wait(): every pool left in the map is closed, Start
\* returns nil
StartFinish ==
    /\ stPc = "waiting"
    /\ WgZero
    /\ poolEnt' = [a \in Addrs |->
                      IF pooling /\ poolEnt[a] = "open" THEN "closed"
                      ELSE poolEnt[a]]
    /\ openPools' = IF pooling
                    THEN openPools
                         - Cardinality({a \in Addrs : poolEnt[a] = "open"})
                    ELSE openPools
    /\ stPc' = "returned"
    /\ UNCHANGED <<lproto, pooling, stCtx, listenPc, hSt, sweeper, poolsMade,
                   wg>>
    /\ UNCHANGED allButLife

LifeInit ==
    /\ lproto \in {"kcp", "quic", "tcp"}
    /\ pooling \in BOOLEAN
    /\ LifeNew
    /\ OthersIdleForLife

LifeNext ==
    \/ StartSetup
    \/ Signal
    \/ ListenTop
    \/ \E h \in LConns : AcceptConn(h)
    \/ AcceptErr
    \/ \E h \in LConns, a \in Addrs : HandlerGetPool(h, a)
    \/ \E h \in LConns : HandlerEnds(h)
    \/ \E h \in LConns : HandlerCancelled(h)
    \/ \E S \in SUBSET Addrs : SweeperTick(S)
    \/ SweeperStop
    \/ StartFinish

\* every goroutine that can take a step eventually takes it; Accept returns
\* within its timeout; a handler returns once the context is done
LifeFairness ==
    /\ WF_vars(StartSetup)
    /\ WF_vars(ListenTop)
    /\ WF_vars(AcceptErr)
    /\ \A h \in LConns : WF_vars(HandlerCancelled(h))
    /\ WF_vars(SweeperStop)
    /\ WF_vars(StartFinish)

SpecLife == LifeInit /\ [][LifeNext]_vars /\ LifeFairness

(***************************************************************************)
(* Server lifecycle: claims                                                *)
(***************************************************************************)

StartOver == stPc \in {"returned", "failed"}

\* Start has returned nil only with everything finished and closed, and the
\* accept loop stops only after the cancellation
ShutdownOrder ==
    /\ (listenPc = "done" => stCtx)
    /\ (stPc = "returned" =>
            /\ stCtx
            /\ listenPc = "done"
            /\ \A h \in LConns : hSt[h] # "running"
            /\ sweeper # "running"
            /\ \A a \in Addrs : poolEnt[a] # "open"
            /\ openPools = 0)

\* C12: after the signal has cancelled the context the accept loop stops and
\* Start eventually returns; it returns only after the accept loop, every
\* handler and the sweeper have finished and every pool has been closed.
C12_GracefulShutdown ==
    /\ []ShutdownOrder
    /\ (stCtx ~> StartOver)
    /\ (stCtx /\ stPc = "waiting" ~> listenPc = "done")

\* Start has returned after a shutdown; a handler had run and the pool it
\* created was closed by Start
C12_Witness ==
    /\ stPc = "returned"
    /\ pooling
    /\ \E h \in LConns : hSt[h] = "done"
    /\ poolsMade > 0
    /\ \E a \in Addrs : poolEnt[a] = "closed"

(***************************************************************************)
(* gRPC transport (internal/tnet/grpc): Conn.Close, Strm.Close, Strm.Read  *)
(* and the receive loop, for one connection                                *)
(***************************************************************************)

gFlagVars == <<gIsServer, gClosed, gCtxDone>>
gDataVars == <<recvChan, recvBuf, readOut, sentLen, eof>>
gCountVars == <<closeMsgs, grpcCloses, pktCloses>>
gCloserVars == <<cPc, cTarget, cTodo, cAlready, cRet, cCalls>>

Users == 1..NumClosers

Min(a, b) == IF a < b THEN a ELSE b

\* closed.CompareAndSwap(false, true) fails: the flag was already set
CasNeverFails(flag) == FALSE
CasFails(flag) == flag

\* sendData(id, nil, true): the close message goes out unless the connection
\* is closed
CloseMsgsAfter(s) ==
    IF gClosed THEN closeMsgs ELSE [closeMsgs EXCEPT ![s] = @ + 1]

\* Conn.Close up to the point where it asks for streamMu
ConnCloseCas(k) ==
    IF CasFails(gClosed)
    THEN /\ cPc' = [cPc EXCEPT ![k] = "ret"]
         /\ cAlready' = [cAlready EXCEPT ![k] = TRUE]
         /\ cRet' = [cRet EXCEPT ![k] = "nil"]
         /\ UNCHANGED <<gClosed, gCtxDone>>
    ELSE /\ gClosed' = TRUE
         /\ gCtxDone' = TRUE
         /\ cPc' = [cPc EXCEPT ![k] = "c_lock"]
         /\ cAlready' = [cAlready EXCEPT ![k] = FALSE]
         /\ cRet' = [cRet EXCEPT ![k] = "none"]

\* a user calls Conn.Close
ConnClose(k) ==
    /\ cPc[k] \in {"idle", "ret"}
    /\ cCalls[k] < MaxCloseCalls
    /\ cCalls' = [cCalls EXCEPT ![k] = @ + 1]
    /\ cTarget' = [cTarget EXCEPT ![k] = 0]
    /\ ConnCloseCas(k)
    /\ UNCHANGED <<gIsServer, streamMu, gKnown, gActive, sClosed, chOpen,
                   gDataVars, gCountVars, cTodo, rlPc, nmsgs>>
    /\ UNCHANGED allButGrpc

\* Conn.Close takes streamMu and starts to range over activeStreams
ConnCloseLock(k) ==
    /\ cPc[k] = "c_lock"
    /\ streamMu = -1
    /\ streamMu' = k
    /\ cTodo' = [cTodo EXCEPT ![k] = gActive]
    /\ cPc' = [cPc EXCEPT ![k] = "c_iter"]
    /\ UNCHANGED <<gFlagVars, gKnown, gActive, sClosed, chOpen, gDataVars,
                   gCountVars, cTarget, cAlready, cRet, cCalls, rlPc, nmsgs>>
    /\ UNCHANGED allButGrpc

\* Conn.Close calls strm.Close() with streamMu held: a stream already closed
\* returns at once; otherwise Strm.Close sets the flag, tries to send and
\* then asks for streamMu, which its own caller holds
ConnCloseStrm(k, s) ==
    /\ cPc[k] = "c_iter"
    /\ s \in cTodo[k]
    /\ IF CasFails(sClosed[s])
       THEN /\ cTodo' = [cTodo EXCEPT ![k] = @ \ {s}]
            /\ UNCHANGED <<sClosed, closeMsgs, cPc>>
       ELSE /\ sClosed' = [sClosed EXCEPT ![s] = TRUE]
            /\ closeMsgs' = CloseMsgsAfter(s)
            /\ cPc' = [cPc EXCEPT ![k] = "c_stuck"]
            /\ UNCHANGED cTodo
    /\ UNCHANGED <<gFlagVars, streamMu, gKnown, gActive, chOpen, gDataVars,
                   grpcCloses, pktCloses, cTarget, cAlready, cRet, cCalls,
                   rlPc, nmsgs>>
    /\ UNCHANGED allButGrpc

\* Conn.Close after the range: unlock, close the gRPC client connection and
\* the packet connection (a server-side Conn has neither), return firstErr
ConnCloseRest(k) ==
    /\ cPc[k] = "c_iter"
    /\ cTodo[k] = {}
    /\ streamMu' = -1
    /\ grpcCloses' = IF gIsServer THEN grpcCloses ELSE grpcCloses + 1
    /\ pktCloses' = IF gIsServer THEN pktCloses ELSE pktCloses + 1
    /\ cPc' = [cPc EXCEPT ![k] = "ret"]
    /\ \E r \in (IF gIsServer THEN {"nil"} ELSE {"nil", "err"}) :
            cRet' = [cRet EXCEPT ![k] = r]
    /\ UNCHANGED <<gFlagVars, gKnown, gActive, sClosed, chOpen, gDataVars,
                   closeMsgs, cTarget, cTodo, cAlready, cCalls, rlPc, nmsgs>>
    /\ UNCHANGED allButGrpc

\* a user calls Strm.Close: the swap, and the close message
StrmClose(k, s) ==
    /\ cPc[k] \in {"idle", "ret"}
    /\ cCalls[k] < MaxCloseCalls
    /\ s \in gKnown
    /\ cCalls' = [cCalls EXCEPT ![k] = @ + 1]
    /\ cTarget' = [cTarget EXCEPT ![k] = s]
    /\ IF CasFails(sClosed[s])
       THEN /\ cPc' = [cPc EXCEPT ![k] = "ret"]
            /\ cAlready' = [cAlready EXCEPT ![k] = TRUE]
            /\ cRet' = [cRet EXCEPT ![k] = "nil"]
            /\ UNCHANGED <<sClosed, closeMsgs>>
       ELSE /\ sClosed' = [sClosed EXCEPT ![s] = TRUE]
            /\ closeMsgs' = CloseMsgsAfter(s)
            /\ cPc' = [cPc EXCEPT ![k] = "s_lock"]
            /\ cAlready' = [cAlready EXCEPT ![k] = FALSE]
            /\ cRet' = [cRet EXCEPT ![k] = "none"]
    /\ UNCHANGED <<gFlagVars, streamMu, gKnown, gActive, chOpen, gDataVars,
                   grpcCloses, pktCloses, cTodo, rlPc, nmsgs>>
    /\ UNCHANGED allButGrpc

\* Strm.Close removes the stream from activeStreams under streamMu
StrmCloseDelete(k) ==
    /\ cPc[k] = "s_lock"
    /\ streamMu = -1
    /\ gActive' = gActive \ {cTarget[k]}
    /\ cPc' = [cPc EXCEPT ![k] = "ret"]
    /\ cRet' = [cRet EXCEPT ![k] = "nil"]
    /\ UNCHANGED <<gFlagVars, streamMu, gKnown, sClosed, chOpen, gDataVars,
                   gCountVars, cTarget, cTodo, cAlready, cCalls, rlPc, nmsgs>>
    /\ UNCHANGED allButGrpc

\* receiveLoop, the loop condition
RlTop ==
    /\ rlPc = "top"
    /\ rlPc' = IF gClosed THEN "done" ELSE "recv"
    /\ UNCHANGED <<gFlagVars, streamMu, gKnown, gActive, sClosed, chOpen,
                   gDataVars, gCountVars, gCloserVars, nmsgs>>
    /\ UNCHANGED allButGrpc

\* the streams the peer may send on: one this side has in its map and the
\* peer has not closed, or the next new one
PeerMaySend(s) ==
    \/ s \in gActive /\ chOpen[s]
    \/ s \notin gKnown /\ \A t \in GStreams : t < s => t \in gKnown

\* the payload of the next n bytes of stream s
Payload(s, n) == [i \in 1..n |-> sentLen[s] + i]

\* recvChan <- data with a default branch: a full channel drops the data
ChanOffer(q, data) == IF Len(q) < RecvChanCap THEN Append(q, data) ELSE q

\* receiveLoop gets a data message of n bytes for stream s
RecvData(s, n) ==
    /\ rlPc = "recv"
    /\ nmsgs < MaxMsgs
    /\ streamMu = -1
    /\ PeerMaySend(s)
    /\ gKnown' = gKnown \cup {s}
    /\ gActive' = gActive \cup {s}
    /\ sentLen' = [sentLen EXCEPT ![s] = @ + n]
    /\ recvChan' = [recvChan EXCEPT ![s] = ChanOffer(@, Payload(s, n))]
    /\ nmsgs' = nmsgs + 1
    /\ rlPc' = "top"
    /\ UNCHANGED <<gFlagVars, streamMu, sClosed, chOpen, recvBuf, readOut,
                   eof, gCountVars, gCloserVars>>
    /\ UNCHANGED allButGrpc

\* receiveLoop gets a close message for stream s
RecvClose(s) ==
    /\ rlPc = "recv"
    /\ nmsgs < MaxMsgs
    /\ streamMu = -1
    /\ PeerMaySend(s)
    /\ gKnown' = gKnown \cup {s}
    /\ gActive' = gActive \cup {s}
    /\ sClosed' = [sClosed EXCEPT ![s] = TRUE]
    /\ chOpen' = [chOpen EXCEPT ![s] = FALSE]
    /\ nmsgs' = nmsgs + 1
    /\ rlPc' = "top"
    /\ UNCHANGED <<gFlagVars, streamMu, gDataVars, gCountVars, gCloserVars>>
    /\ UNCHANGED allButGrpc

\* Recv returns an error: io.EOF or a closed connection end the loop, any
\* other error makes the loop call c.Close()
RecvFails(isEOF) ==
    /\ rlPc = "recv"
    /\ IF isEOF \/ gClosed
       THEN /\ rlPc' = "done"
            /\ UNCHANGED <<gClosed, gCtxDone, cPc, cAlready, cRet>>
       ELSE /\ rlPc' = "closing"
            /\ ConnCloseCas(0)
    /\ UNCHANGED <<gIsServer, streamMu, gKnown, gActive, sClosed, chOpen,
                   gDataVars, gCountVars, cTarget, cTodo, cCalls, nmsgs>>
    /\ UNCHANGED allButGrpc

\* the loop's c.Close() has returned: receiveLoop returns
RlClosed ==
    /\ rlPc = "closing"
    /\ cPc[0] = "ret"
    /\ rlPc' = "done"
    /\ UNCHANGED <<gFlagVars, streamMu, gKnown, gActive, sClosed, chOpen,
                   gDataVars, gCountVars, gCloserVars, nmsgs>>
    /\ UNCHANGED allButGrpc

\* Strm.Read(b) with len(b) = n; a Read that finds nothing waits and is no
\* step
Read(s, n) ==
    /\ s \in gKnown
    /\ ~eof[s]
    /\ IF sClosed[s]
       THEN /\ eof' = [eof EXCEPT ![s] = TRUE]
            /\ UNCHANGED <<recvChan, recvBuf, readOut>>
       ELSE IF Len(recvBuf[s]) > 0
       THEN LET m == Min(n, Len(recvBuf[s])) IN
            /\ readOut' = [readOut EXCEPT ![s] = @ \o SubSeq(recvBuf[s], 1, m)]
            /\ recvBuf' = [recvBuf EXCEPT
                             ![s] = SubSeq(@, m + 1, Len(@))]
            /\ UNCHANGED <<recvChan, eof>>
       ELSE /\ Len(recvChan[s]) > 0
            /\ LET data == Head(recvChan[s])
                   m == Min(n, Len(data)) IN
               /\ readOut' = [readOut EXCEPT ![s] = @ \o SubSeq(data, 1, m)]
               /\ recvBuf' = [recvBuf EXCEPT
                                ![s] = IF m < Len(data)
                                       THEN SubSeq(data, m + 1, Len(data))
                                       ELSE @]
               /\ recvChan' = [recvChan EXCEPT ![s] = Tail(@)]
            /\ UNCHANGED eof
    /\ UNCHANGED <<gFlagVars, streamMu, gKnown, gActive, sClosed, chOpen,
                   sentLen, gCountVars, gCloserVars, rlPc, nmsgs>>
    /\ UNCHANGED allButGrpc

GrpcInit ==
    /\ gIsServer \in BOOLEAN
    /\ GrpcNew
    /\ OthersIdleForGrpc

\* the connection and its streams being closed while the peer sends
GrpcCloseNext ==
    \/ \E k \in Users : ConnClose(k)
    \/ \E k \in Closers : ConnCloseLock(k)
    \/ \E k \in Closers, s \in GStreams : ConnCloseStrm(k, s)
    \/ \E k \in Closers : ConnCloseRest(k)
    \/ \E k \in Users, s \in GStreams : StrmClose(k, s)
    \/ \E k \in Users : StrmCloseDelete(k)
    \/ RlTop
    \/ \E s \in GStreams : RecvData(s, 1)
    \/ \E s \in GStreams : RecvClose(s)
    \/ \E e \in BOOLEAN : RecvFails(e)
    \/ RlClosed

SpecGrpcClose == GrpcInit /\ [][GrpcCloseNext]_vars

\* the streams being read while the peer sends and closes
GrpcDataNext ==
    \/ RlTop
    \/ \E s \in GStreams, n \in 1..MaxPayload : RecvData(s, n)
    \/ \E s \in GStreams : RecvClose(s)
    \/ RecvFails(TRUE)
    \/ \E s \in GStreams, n \in 1..MaxReadBuf : Read(s, n)

SpecGrpcData == GrpcInit /\ [][GrpcDataNext]_vars

(***************************************************************************)
(* gRPC transport: claims                                                  *)
(***************************************************************************)

\* what a Close call can change besides the caller's own position
gEffects == <<gClosed, gCtxDone, streamMu, gKnown, gActive, sClosed, chOpen,
              recvChan, recvBuf, readOut, sentLen, eof, closeMsgs, grpcCloses,
              pktCloses>>

\* a Close call that finds its target already closed returns nil in the same
\* step and changes nothing
SecondCloseStep ==
    \A k \in Users :
        (/\ cCalls'[k] = cCalls[k] + 1
         /\ IF cTarget'[k] = 0 THEN gClosed ELSE sClosed[cTarget'[k]])
        => /\ cPc'[k] = "ret"
           /\ cRet'[k] = "nil"
           /\ gEffects' = gEffects

\* no close message is sent twice and no resource is closed twice
ClosedOnce ==
    /\ \A s \in GStreams : closeMsgs[s] <= 1
    /\ grpcCloses <= 1
    /\ pktCloses <= 1

\* C13: Close is idempotent on the gRPC connection and on its streams: a
\* second Close returns nil and has no further effect (no second close
\* message, no resource closed again).
C13_IdempotentClose == []ClosedOnce /\ [][SecondCloseStep]_vars

\* one caller has closed the connection twice and another a stream twice;
\* the first calls sent the close message and closed the gRPC connection
C13_Witness ==
    \E k1, k2 \in Users :
        /\ cPc[k1] = "ret" /\ cAlready[k1] /\ cTarget[k1] = 0
        /\ cPc[k2] = "ret" /\ cAlready[k2] /\ cTarget[k2] # 0
        /\ cCalls[k1] = 2 /\ cCalls[k2] = 2
        /\ closeMsgs[cTarget[k2]] = 1
        /\ grpcCloses = 1

RECURSIVE Flatten(_)
Flatten(q) == IF q = <<>> THEN <<>> ELSE Head(q) \o Flatten(Tail(q))

\* the bytes the peer has sent on stream s, in order
SentBytes(s) == [i \in 1..sentLen[s] |-> i]

\* C14: the bytes returned by successive Reads, followed by those still
\* waiting in the stream, are the bytes the peer sent, in order, none lost,
\* duplicated or reordered; and a Read reports the end of the stream only
\* after all of them have been returned.
C14_ByteStream ==
    \A s \in GStreams :
        /\ readOut[s] \o recvBuf[s] \o Flatten(recvChan[s]) = SentBytes(s)
        /\ (eof[s] => readOut[s] = SentBytes(s))

(***************************************************************************)
(* Stream opening (internal/client): call depth and retry backoff          *)
(***************************************************************************)

\* newStrmWithRetry retries by calling itself and returning the result, so
\* the invocation for attempt a has the invocations for 0..a-1 below it
Frames(c) == IF InCall(c) THEN attempt[c] + 1 ELSE 0

\* C15: stream opening retries iteratively: the call depth of the stream-open
\* routine stays constant and does not grow with the failed attempts.
C15_ConstantDepth == \A c \in Callers : Frames(c) <= 1

RECURSIVE Pow2(_)
Pow2(a) == IF a <= 0 THEN 1 ELSE 2 * Pow2(a - 1)

\* the configured value, or the default when it is not positive
OrDefault(v, d) == IF v <= 0 THEN d ELSE v

\* backoffMs > maxBackoff caps the wait
Uncapped(ms, cap) == ms
Capped(ms, cap) == IF ms > cap THEN cap ELSE ms

\* calculateRetryBackoff(attempt), in milliseconds; the float64 product is
\* exact for the values the configuration admits
CalculateRetryBackoff(initial, max, a) ==
    Capped(OrDefault(initial, DefaultInitialBackoff) * Pow2(a),
           OrDefault(max, DefaultMaxBackoff))

\* an attempt of a newStrm call fails and the routine computes its wait
BackoffAfterFailure ==
    /\ boAttempt < MaxBoAttempt
    /\ boAttempt' = boAttempt + 1
    /\ boWait' = CalculateRetryBackoff(boInitial, boMax, boAttempt + 1)
    /\ UNCHANGED <<boInitial, boMax>>
    /\ UNCHANGED allButBo

BackoffInit ==
    /\ boInitial \in -1..MaxBoInitial
    /\ boMax \in -1..MaxBoMax
    /\ BackoffNew
    /\ OthersIdleForBackoff

BackoffNext == BackoffAfterFailure

SpecBackoff == BackoffInit /\ [][BackoffNext]_vars

\* the configured bounds with the defaults substituted
EffInitial == IF boInitial <= 0 THEN 100 ELSE boInitial
EffMax == IF boMax <= 0 THEN 10000 ELSE boMax

\* the smaller of two waits
Least(a, b) == IF a <= b THEN a ELSE b

\* the first wait is min(initial, max); every later wait is the previous one
\* doubled, up to max; the waits never decrease and never exceed max
BackoffStep ==
    /\ boWait' <= EffMax
    /\ (boAttempt' = 0 => boWait' = Least(EffInitial, EffMax))
    /\ (boAttempt' > 0 /\ boAttempt' = boAttempt + 1 =>
            /\ boWait' = Least(2 * boWait, EffMax)
            /\ boWait' >= boWait)
    /\ (boAttempt' = boAttempt + 1 =>
            boWait' = Least(EffInitial * Pow2(boAttempt'), EffMax))

\* C16: after failed attempt a the routine waits
\* min(retry_initial_backoff_ms * 2^a, retry_max_backoff_ms) milliseconds
\* (100 and 10000 when the configured values are <= 0); the wait is
\* non-decreasing in a and never exceeds retry_max_backoff_ms.
C16_Backoff == [][BackoffStep]_vars

\* with nothing configured the waits have grown from 100 ms to the default
\* cap of 10000 ms
C16_Witness ==
    /\ boInitial <= 0
    /\ boMax <= 0
    /\ boAttempt = 7
    /\ boWait = 10000


(***************************************************************************)
(* TUN tunnel handler: tunnel.Handler.Start on the client and              *)
(* Server.handleTUNProtocol on the server, with the two CopyTUN goroutines *)
(* they start.  Errors are "nil", "io.EOF", "context.Canceled",            *)
(* "io.ErrClosedPipe", "other" (an I/O error of the stream or the device)  *)
(* and "wrapped" (a new error made by fmt.Errorf).                         *)
(***************************************************************************)

\* handleTUNProtocol: the negation of !s.cfg.TUN.Enabled || s.tun == nil;
\* the client's handler is built around a device and has no such test
TunUsableAlways == TRUE
TunUsable == tunSide = "client" \/ (tunEnabled /\ tunDev)

\* the test both handlers apply to the error received from errCh
IsFailure(err) == err # "context.Canceled" /\ err # "io.EOF"

\* what the handler returns for an error received from errCh: the client
\* wraps a failure with fmt.Errorf, the server returns it as it is
ReturnFor(err) ==
    IF ~IsFailure(err) THEN "nil"
    ELSE IF tunSide = "client" THEN "wrapped"
    ELSE err

\* a goroutine ends: errCh <- err (the channel has room for both results)
RelayEnds(d, err) ==
    /\ relayPc' = [relayPc EXCEPT ![d] = "done"]
    /\ errCh' = Append(errCh, err)

\* the handler up to its select: the server rejects the stream when TUN is
\* not usable, the client fails when it cannot open the stream; otherwise
\* errCh is made and the two goroutines are started
TunStart ==
    /\ tunPc = "new"
    /\ IF ~TunUsable
         THEN /\ tunPc' = "returned"
              /\ tunRet' = "io.ErrClosedPipe"
              /\ UNCHANGED relayPc
         ELSE IF tunSide = "client" /\ ~tunStrmOk
         THEN /\ tunPc' = "returned"
              /\ tunRet' = "wrapped"
              /\ UNCHANGED relayPc
         ELSE /\ tunPc' = "relaying"
              /\ tunRet' = tunRet
              /\ relayPc' = [d \in Dirs |-> "rcheck"]
    /\ UNCHANGED <<tunSide, tunEnabled, tunDev, tunStrmOk, tunCtx,
                   tunCancelAt, errCh, tunIO, tunSeen, tunSeenErr>>
    /\ UNCHANGED allButTun

\* contextReader.Read / contextWriter.Write: the context test before the
\* call; a cancelled context makes io.CopyBuffer return ctx.Err()
RelayCheck(d) ==
    /\ relayPc[d] \in {"rcheck", "wcheck"}
    /\ IF tunCtx
         THEN RelayEnds(d, "context.Canceled")
         ELSE /\ relayPc' = [relayPc EXCEPT
                    ![d] = IF relayPc[d] = "rcheck" THEN "read" ELSE "write"]
              /\ UNCHANGED errCh
    /\ UNCHANGED <<tunSide, tunEnabled, tunDev, tunStrmOk, tunPc, tunRet,
                   tunCtx, tunCancelAt, tunIO, tunSeen, tunSeenErr>>
    /\ UNCHANGED allButTun

\* the source returns a packet
RelayRead(d) ==
    /\ relayPc[d] = "read"
    /\ tunIO < MaxTunIO
    /\ tunIO' = tunIO + 1
    /\ relayPc' = [relayPc EXCEPT ![d] = "wcheck"]
    /\ UNCHANGED <<tunSide, tunEnabled, tunDev, tunStrmOk, tunPc, tunRet,
                   tunCtx, tunCancelAt, errCh, tunSeen, tunSeenErr>>
    /\ UNCHANGED allButTun

\* the source is at its end (Read returns io.EOF): io.CopyBuffer stops and
\* returns nil, which CopyTUN returns
RelayReadEOF(d) ==
    /\ relayPc[d] = "read"
    /\ RelayEnds(d, "nil")
    /\ UNCHANGED <<tunSide, tunEnabled, tunDev, tunStrmOk, tunPc, tunRet,
                   tunCtx, tunCancelAt, tunIO, tunSeen, tunSeenErr>>
    /\ UNCHANGED allButTun

\* the read or the write fails
RelayIOError(d) ==
    /\ relayPc[d] \in {"read", "write"}
    /\ RelayEnds(d, "other")
    /\ UNCHANGED <<tunSide, tunEnabled, tunDev, tunStrmOk, tunPc, tunRet,
                   tunCtx, tunCancelAt, tunIO, tunSeen, tunSeenErr>>
    /\ UNCHANGED allButTun

\* the packet is written to the destination
RelayWrite(d) ==
    /\ relayPc[d] = "write"
    /\ tunIO < MaxTunIO
    /\ tunIO' = tunIO + 1
    /\ relayPc' = [relayPc EXCEPT ![d] = "rcheck"]
    /\ UNCHANGED <<tunSide, tunEnabled, tunDev, tunStrmOk, tunPc, tunRet,
                   tunCtx, tunCancelAt, errCh, tunSeen, tunSeenErr>>
    /\ UNCHANGED allButTun

\* the handler's context is cancelled
TunCancel ==
    /\ ~tunCtx
    /\ tunCtx' = TRUE
    /\ tunCancelAt' = tunPc
    /\ UNCHANGED <<tunSide, tunEnabled, tunDev, tunStrmOk, tunPc, tunRet,
                   relayPc, errCh, tunIO, tunSeen, tunSeenErr>>
    /\ UNCHANGED allButTun

\* select, case err := <-errCh
TunSelectErr ==
    /\ tunPc = "relaying"
    /\ errCh # <<>>
    /\ tunSeen' = "errCh"
    /\ tunSeenErr' = Head(errCh)
    /\ errCh' = Tail(errCh)
    /\ tunRet' = ReturnFor(Head(errCh))
    /\ tunPc' = "returned"
    /\ UNCHANGED <<tunSide, tunEnabled, tunDev, tunStrmOk, tunCtx,
                   tunCancelAt, relayPc, tunIO>>
    /\ UNCHANGED allButTun

\* select, case <-ctx.Done(): return ctx.Err()
TunSelectCtx ==
    /\ tunPc = "relaying"
    /\ tunCtx
    /\ tunSeen' = "ctx"
    /\ tunRet' = "context.Canceled"
    /\ tunPc' = "returned"
    /\ UNCHANGED <<tunSide, tunEnabled, tunDev, tunStrmOk, tunCtx,
                   tunCancelAt, relayPc, errCh, tunIO, tunSeenErr>>
    /\ UNCHANGED allButTun

TunInit ==
    /\ tunSide \in {"client", "server"}
    /\ tunEnabled \in BOOLEAN
    /\ tunDev \in BOOLEAN
    /\ tunStrmOk \in BOOLEAN
    /\ (tunSide = "client" => tunEnabled /\ tunDev)
    /\ (tunSide = "server" => ~tunStrmOk)
    /\ TunNew
    /\ OthersIdleForTun

TunNext ==
    \/ TunStart
    \/ TunCancel
    \/ TunSelectErr
    \/ TunSelectCtx
    \/ \E d \in Dirs :
          \/ RelayCheck(d)
          \/ RelayRead(d)
          \/ RelayReadEOF(d)
          \/ RelayIOError(d)
          \/ RelayWrite(d)

SpecTun == TunInit /\ [][TunNext]_vars

\* C17: when a relay direction ends on a clean end-of-stream, the tunnel
\* handler (client Handler.Start and server handleTUNProtocol) returns nil.
C17_CleanEndIsNil ==
    tunPc = "returned" /\ tunSeen = "errCh" /\ tunSeenErr = "nil"
        => tunRet = "nil"

\* C18: when the context is cancelled while the relay runs, the handler
\* returns the cancellation error, whether it observes the context-done
\* signal or a direction reporting the cancellation first.
C18_CancelPropagates ==
    /\ tunPc = "returned"
    /\ tunCancelAt = "relaying"
    /\ (tunSeen = "ctx" \/ tunSeenErr = "context.Canceled")
    => tunRet = "context.Canceled"

\* C19: a TUN stream arriving at a server with TUN disabled or without a
\* TUN device is rejected with an error; no relay task is started and
\* nothing is read from or written to the stream or a device.
C19_RejectedWhenDisabled ==
    tunSide = "server" /\ (~tunEnabled \/ ~tunDev) =>
        /\ tunPc = "returned" => tunRet = "io.ErrClosedPipe"
        /\ tunPc # "relaying"
        /\ \A d \in Dirs : relayPc[d] = "unstarted"
        /\ errCh = <<>>
        /\ tunIO = 0

\* a server without a TUN device, although TUN is enabled, has rejected
\* the stream
C19_Witness ==
    /\ tunSide = "server"
    /\ tunEnabled
    /\ ~tunDev
    /\ tunPc = "returned"
    /\ tunRet = "io.ErrClosedPipe"


(***************************************************************************)
(* iterator.Iterator: the round-robin selection the client's newConn uses. *)
(* Items holds the slots; Next advances the index and returns the item     *)
(* there, Peek returns the item at the index.                              *)
(***************************************************************************)

\* the zero value Next and Peek return on an iterator without items
ZeroItem == 0

\* the slot lists: up to MaxItems distinct items
ItemLists ==
    {s \in UNION {[1..n -> 1..MaxItems] : n \in 0..MaxItems} :
        \A i, j \in DOMAIN s : i # j => s[i] # s[j]}

\* the index after a Next call on n items
IterStay(i, n) == i
IterAdvance(i, n) == (i + 1) % n

\* the item at index i (indices count from 0)
ItemAt(i) == itItems[i + 1]

\* Iterator.Next
IterNextCall ==
    /\ Len(itRets) < MaxIterCalls
    /\ IF itItems = <<>>
         THEN /\ itRets' = Append(itRets, ZeroItem)
              /\ UNCHANGED <<itIndex, itPicks>>
         ELSE /\ itIndex' = IterAdvance(itIndex, Len(itItems))
              /\ itPicks' = Append(itPicks, itIndex')
              /\ itRets' = Append(itRets, ItemAt(itIndex'))
    /\ itPeeked' = -1
    /\ UNCHANGED itItems
    /\ UNCHANGED allButIter

\* Iterator.Peek
IterPeekCall ==
    /\ itPeeked' = IF itItems = <<>> THEN ZeroItem ELSE ItemAt(itIndex)
    /\ UNCHANGED <<itItems, itIndex, itPicks, itRets>>
    /\ UNCHANGED allButIter

IterInit ==
    /\ itItems \in ItemLists
    /\ IterNew
    /\ OthersIdleForIter

IterStep == IterNextCall \/ IterPeekCall

SpecIter == IterInit /\ [][IterStep]_vars

\* the selections walk the slots in order, starting after slot 0 and
\* wrapping around after the last one, and return the items found there
WalksInOrder ==
    \A k \in 1..Len(itPicks) :
        /\ itPicks[k] = k % Len(itItems)
        /\ itRets[k] = ItemAt(itPicks[k])

\* any N consecutive selections over N slots select each slot exactly once
EachSlotOnce ==
    LET n == Len(itItems) IN
    \A k \in 1..Len(itPicks) :
        k + n - 1 <= Len(itPicks) =>
            /\ {itPicks[j] : j \in k..(k + n - 1)} = 0..(n - 1)
            /\ \A i, j \in k..(k + n - 1) : i # j => itPicks[i] # itPicks[j]

\* Peek returns the item at the index and leaves the index where the last
\* Next put it
PeekIsCurrent ==
    /\ itIndex = IF itPicks = <<>> THEN 0 ELSE itPicks[Len(itPicks)]
    /\ itPeeked # -1 /\ itItems # <<>> => itPeeked = ItemAt(itIndex)
    /\ itPeeked # -1 /\ itItems = <<>> => itPeeked = ZeroItem

\* C20: slot selection is round-robin: successive Next calls walk the items
\* in order with wrap-around (on items [1,2,3] they return 2, 3, 1, 2, ...),
\* any N consecutive selections over N slots select each slot exactly once,
\* and Peek returns the current item without advancing.
C20_RoundRobin ==
    /\ WalksInOrder
    /\ EachSlotOnce
    /\ PeekIsCurrent
    /\ itItems = <<1, 2, 3>> =>
           \A k \in 1..Len(itRets) : itRets[k] = (k % 3) + 1

\* on items [1,2,3] four Next calls returned 2, 3, 1, 2 and a Peek after
\* them returned 2
C20_Witness ==
    /\ itItems = <<1, 2, 3>>
    /\ itRets = <<2, 3, 1, 2>>
    /\ itPeeked = 2


(***************************************************************************)
(* The client without slots: newConn on a Client whose iterator holds no   *)
(* items (the client before Start has filled c.iter.Items).                *)
(***************************************************************************)

NoSlotsInit ==
    /\ nslots = 0
    /\ cfgMaxRetry \in 0..MaxCfgRetry
    /\ iterIdx = 0
    /\ mu = 0
    /\ slotConn = [s \in 1..MaxSlots |-> 0]
    /\ hcAge = [s \in 1..MaxSlots |-> 0]
    /\ tcpfAge = [s \in 1..MaxSlots |-> 0]
    /\ connSt = [i \in ConnIds |-> "none"]
    /\ nextId = 1
    /\ ctxDone = FALSE
    /\ shutIdx = 0
    /\ pc = [c \in Callers |-> "idle"]
    /\ attempt = [c \in Callers |-> 0]
    /\ tc = [c \in Callers |-> 0]
    /\ got = [c \in Callers |-> 0]
    /\ tries = [c \in Callers |-> 0]
    /\ clean = [c \in Callers |-> TRUE]
    /\ reached = [c \in Callers |-> 0]
    /\ ncErr = [c \in Callers |-> "none"]
    /\ tcpfRes = [c \in Callers |-> "none"]
    /\ OthersIdleForClient

NoSlotsStep ==
    \/ \E c \in Callers : NewStrm(c)
    \/ \E c \in Callers : NewConnLock(c)
    \/ \E c \in Callers : Again(c)
    \/ CancelCtx

NoSlotsNext ==
    NoSlotsStep /\ UNCHANGED <<iptVars, poolVars, srvVars, moreVars>>

SpecNoSlots == NoSlotsInit /\ [][NoSlotsNext]_vars

\* C21: with no slots configured, newConn returns a nil connection with
\* the error "no available connections"; it creates no connection and
\* leaves the client's lock free.
C21_NoSlots ==
    nslots = 0 =>
        /\ \A c \in Callers :
              /\ got[c] = 0
              /\ tc[c] = 0
              /\ tries[c] > 0 /\ pc[c] # "lock" =>
                     ncErr[c] = "no available connections"
              /\ attempt[c] > 0 => ncErr[c] = "no available connections"
        /\ nextId = 1
        /\ \A i \in ConnIds : connSt[i] = "none"
        /\ \A s \in 1..MaxSlots : slotConn[s] = 0
        /\ mu = 0

\* a caller's first newConn call has failed for want of a slot
C21_Witness ==
    /\ nslots = 0
    /\ \E c \in Callers :
          /\ attempt[c] = 1
          /\ pc[c] = "lock"
          /\ ncErr[c] = "no available connections"


(***************************************************************************)
(* Server pool registry: getConnPool and the sweeper cleanupConnPools.     *)
(* Every section of the code that runs under connPoolsMu is one step; time *)
(* is counted in ticker periods and passes only between getConnPool calls, *)
(* a call being short against a period.                                    *)
(***************************************************************************)

\* the getters inside getConnPool
InGet == {g \in Getters : gpPc[g] \in {"touch", "create"}}

\* a call begins: it overlaps the calls under way
Overlap(g) ==
    [h \in Getters |->
        IF h = g THEN InGet \ {g}
        ELSE IF h \in InGet THEN gpWith[h] \cup {g}
        ELSE gpWith[h]]

\* getConnPool: the lookup under the read lock
GpLookup(g, a) ==
    /\ gpPc[g] = "idle"
    /\ gpAddr' = [gpAddr EXCEPT ![g] = a]
    /\ gpEnt' = [gpEnt EXCEPT ![g] = regPool[a]]
    /\ gpPc' = [gpPc EXCEPT ![g] = IF regPool[a] # 0 THEN "touch" ELSE "create"]
    /\ gpWith' = Overlap(g)
    /\ UNCHANGED <<regPool, rpSt, rpAge, rpNext, gpRet, nsweeps>>
    /\ UNCHANGED allButReg

\* getConnPool: the entry existed; its lastAccess is set under the write
\* lock and its pool is returned
GpTouch(g) ==
    /\ gpPc[g] = "touch"
    /\ rpAge' = [rpAge EXCEPT ![gpEnt[g]] = 0]
    /\ gpRet' = [gpRet EXCEPT ![g] = gpEnt[g]]
    /\ gpPc' = [gpPc EXCEPT ![g] = "done"]
    /\ UNCHANGED <<regPool, rpSt, rpNext, gpAddr, gpEnt, gpWith, nsweeps>>
    /\ UNCHANGED allButReg

\* the second look at the map, under the write lock
NeverFound(a) == FALSE
FoundNow(a) == regPool[a] # 0

\* getConnPool: no entry was found; under the write lock the map is looked
\* at again, and a pool is made and registered if there is still none
\* (connpool.New may fail)
GpCreate(g) ==
    /\ gpPc[g] = "create"
    /\ LET a == gpAddr[g] IN
       IF FoundNow(a)
       THEN /\ rpAge' = [rpAge EXCEPT ![regPool[a]] = 0]
            /\ gpRet' = [gpRet EXCEPT ![g] = regPool[a]]
            /\ UNCHANGED <<regPool, rpSt, rpNext>>
       ELSE \/ /\ rpNext <= MaxRegPools
               /\ regPool' = [regPool EXCEPT ![a] = rpNext]
               /\ rpSt' = [rpSt EXCEPT ![rpNext] = "open"]
               /\ rpAge' = [rpAge EXCEPT ![rpNext] = 0]
               /\ rpNext' = rpNext + 1
               /\ gpRet' = [gpRet EXCEPT ![g] = rpNext]
            \/ /\ gpRet' = [gpRet EXCEPT ![g] = 0]
               /\ UNCHANGED <<regPool, rpSt, rpAge, rpNext>>
    /\ gpPc' = [gpPc EXCEPT ![g] = "done"]
    /\ UNCHANGED <<gpAddr, gpEnt, gpWith, nsweeps>>
    /\ UNCHANGED allButReg

\* the caller is through with the pool and may call again
GpAgain(g) ==
    /\ gpPc[g] = "done"
    /\ gpPc' = [gpPc EXCEPT ![g] = "idle"]
    /\ gpAddr' = [gpAddr EXCEPT ![g] = 0]
    /\ gpEnt' = [gpEnt EXCEPT ![g] = 0]
    /\ gpRet' = [gpRet EXCEPT ![g] = 0]
    /\ gpWith' = [h \in Getters |-> IF h = g THEN {} ELSE gpWith[h] \ {g}]
    /\ UNCHANGED <<regPool, rpSt, rpAge, rpNext, nsweeps>>
    /\ UNCHANGED allButReg

\* now.Sub(entry.lastAccess) > maxIdleTime
StaleOffByOne(p) == rpAge[p] >= MaxIdleTime
Stale(p) == rpAge[p] > MaxIdleTime

\* cleanupConnPools, one tick: under the write lock every stale entry's
\* pool is closed and the entry deleted
Sweep ==
    /\ nsweeps < MaxSweeps
    /\ nsweeps' = nsweeps + 1
    /\ regPool' = [a \in Targets |->
                      IF regPool[a] # 0 /\ Stale(regPool[a]) THEN 0
                      ELSE regPool[a]]
    /\ rpSt' = [p \in RegPoolIds |->
                   IF (\E a \in Targets : regPool[a] = p) /\ Stale(p)
                   THEN "closed" ELSE rpSt[p]]
    /\ UNCHANGED <<rpAge, rpNext, gpPc, gpAddr, gpEnt, gpRet, gpWith>>
    /\ UNCHANGED allButReg

\* a ticker period passes
RegTick ==
    /\ InGet = {}
    /\ \E a \in Targets : regPool[a] # 0 /\ rpAge[regPool[a]] <= MaxIdleTime
    /\ rpAge' = [p \in RegPoolIds |->
                    IF (\E a \in Targets : regPool[a] = p)
                          /\ rpAge[p] <= MaxIdleTime
                    THEN rpAge[p] + 1 ELSE rpAge[p]]
    /\ UNCHANGED <<regPool, rpSt, rpNext, gpPc, gpAddr, gpEnt, gpRet, gpWith,
                   nsweeps>>
    /\ UNCHANGED allButReg

RegInit == RegNew /\ OthersIdleForReg

RegNext ==
    \/ \E g \in Getters, a \in Targets : GpLookup(g, a)
    \/ \E g \in Getters : GpTouch(g)
    \/ \E g \in Getters : GpCreate(g)
    \/ \E g \in Getters : GpAgain(g)
    \/ Sweep
    \/ RegTick

SpecRegistry == RegInit /\ [][RegNext]_vars

\* the pools registered
Registered == {regPool[a] : a \in Targets} \ {0}

\* what one sweep does to the pools registered before it
SweepStep ==
    nsweeps' = nsweeps + 1 =>
        \A a \in Targets :
            LET p == regPool[a] IN
            p # 0 =>
                IF rpAge[p] > MaxIdleTime
                THEN regPool'[a] = 0 /\ rpSt'[p] = "closed"
                ELSE regPool'[a] = p /\ rpSt'[p] = "open"

\* C22: each sweep removes and closes exactly the pools whose last access
\* lies more than 30 minutes back; every pool accessed within the last 30
\* minutes stays registered and open.
C22_Sweep ==
    /\ [](\A p \in Registered : rpSt[p] = "open")
    /\ [][SweepStep]_vars

\* one sweep has closed the first pool, stale, and left the second one,
\* accessed since, registered
C22_Witness ==
    /\ nsweeps = 1
    /\ rpSt[1] = "closed"
    /\ rpSt[2] = "open"
    /\ 2 \in Registered
    /\ rpAge[2] < MaxIdleTime

\* C30: under concurrent requests for one target address exactly one pool
\* is created for it: the callers receive the same pool, and no pool is
\* created and then overwritten or discarded.
C30_OnePoolPerTarget ==
    /\ \A g, h \in Getters :
          /\ gpPc[g] = "done" /\ gpPc[h] = "done"
          /\ h \in gpWith[g]
          /\ gpAddr[g] = gpAddr[h]
          /\ gpRet[g] # 0 /\ gpRet[h] # 0
          => gpRet[g] = gpRet[h]
    /\ \A p \in RegPoolIds : rpSt[p] = "open" => p \in Registered


(***************************************************************************)
(* flog: SetLevel, logf, Fatalf and the goroutine that writes logCh to     *)
(* os.Stdout.  Messages are numbered in the order of the calls.            *)
(***************************************************************************)

\* the process has not exited
Alive == fPc # "exited"

\* the levels SetLevel is called with and the levels logged at
SetLevels == {LevelNone, LevelDebug, LevelInfo}
MsgLevels == {LevelDebug, LevelInfo}

\* SetLevel(l): the consumer goroutine is started unless l is -1
SetLevel(l) ==
    /\ Alive
    /\ minLevel # l \/ (l # LevelNone /\ ~consumer)
    /\ minLevel' = l
    /\ consumer' = (consumer \/ l # LevelNone)
    /\ UNCHANGED <<logCh, logOut, nlogged, logLost, logSkip, fPc, fatalId,
                   fFiltered>>
    /\ UNCHANGED allButLog

\* logf returns at once: level < minLevel || minLevel == None
BelowLevel(level) == level < minLevel \/ minLevel = LevelNone

\* the default branch of the select in logf is taken
ChanFullEarly == Len(logCh) >= LogChCap - 1
ChanFull == Len(logCh) >= LogChCap

\* logf(level, ...): filtered is true when WErr turns an error argument
\* into nil
Logf(level, filtered) ==
    /\ Alive
    /\ nlogged < MaxLogs
    /\ nlogged' = nlogged + 1
    /\ IF BelowLevel(level) \/ filtered
       THEN /\ logSkip' = logSkip \cup {nlogged'}
            /\ UNCHANGED <<logCh, logLost>>
       ELSE IF ChanFull
       THEN /\ logLost' = logLost \cup {nlogged'}
            /\ UNCHANGED <<logCh, logSkip>>
       ELSE /\ logCh' = Append(logCh, nlogged')
            /\ UNCHANGED <<logLost, logSkip>>
    /\ UNCHANGED <<minLevel, consumer, logOut, fPc, fatalId, fFiltered>>
    /\ UNCHANGED allButLog

\* the consumer: for msg := range logCh { fmt.Fprint(os.Stdout, msg) }
Consume ==
    /\ Alive
    /\ consumer
    /\ logCh # <<>>
    /\ logOut' = Append(logOut, Head(logCh))
    /\ logCh' = Tail(logCh)
    /\ UNCHANGED <<minLevel, consumer, nlogged, logLost, logSkip, fPc,
                   fatalId, fFiltered>>
    /\ UNCHANGED allButLog

\* Fatalf up to the send: with logging off, or with an argument WErr
\* filters, the process exits without a line
FatalfCall(filtered) ==
    /\ fPc = "none"
    /\ nlogged < MaxLogs
    /\ nlogged' = nlogged + 1
    /\ fatalId' = nlogged'
    /\ fFiltered' = filtered
    /\ IF minLevel # LevelNone /\ LevelFatal >= minLevel
       THEN IF filtered
            THEN /\ fPc' = "exited"
                 /\ logSkip' = logSkip \cup {nlogged'}
            ELSE /\ fPc' = "sending"
                 /\ UNCHANGED logSkip
       ELSE /\ fPc' = "exited"
            /\ logSkip' = logSkip \cup {nlogged'}
    /\ UNCHANGED <<minLevel, consumer, logCh, logOut, logLost>>
    /\ UNCHANGED allButLog

\* Fatalf: logCh <- line, which waits while the channel is full
FatalfSend ==
    /\ fPc = "sending"
    /\ Len(logCh) < LogChCap
    /\ logCh' = Append(logCh, fatalId)
    /\ fPc' = "sleeping"
    /\ UNCHANGED <<minLevel, consumer, logOut, nlogged, logLost, logSkip,
                   fatalId, fFiltered>>
    /\ UNCHANGED allButLog

\* Fatalf: the 50 ms sleep is over, os.Exit(1)
FatalfExit ==
    /\ fPc = "sleeping"
    /\ fPc' = "exited"
    /\ UNCHANGED <<minLevel, consumer, logCh, logOut, nlogged, logLost,
                   logSkip, fatalId, fFiltered>>
    /\ UNCHANGED allButLog

LogInit == LogNew /\ OthersIdleForLog

LogNext ==
    \/ \E l \in SetLevels : SetLevel(l)
    \/ \E level \in MsgLevels, filtered \in BOOLEAN : Logf(level, filtered)
    \/ Consume

\* the consumer goroutine is scheduled as long as it has a line to write
LogFairness == WF_vars(Consume)

SpecLog == LogInit /\ [][LogNext]_vars /\ LogFairness

FatalNext ==
    \/ LogNext
    \/ \E filtered \in BOOLEAN : FatalfCall(filtered)
    \/ FatalfSend
    \/ FatalfExit

\* the goroutine in Fatalf goes on when its send can proceed and when its
\* sleep is over
FatalFairness == WF_vars(FatalfSend) /\ WF_vars(FatalfExit)

SpecFatal == LogInit /\ [][FatalNext]_vars /\ LogFairness /\ FatalFairness

\* the messages waiting in logCh and those written
Waiting == {logCh[i] : i \in DOMAIN logCh}
Written == {logOut[i] : i \in DOMAIN logOut}

LogAccounting ==
    /\ Waiting \cup Written \cup logLost \cup logSkip = 1..nlogged
    /\ Cardinality(Waiting) + Cardinality(Written) + Cardinality(logLost)
          + Cardinality(logSkip) = nlogged
    /\ Len(logCh) <= LogChCap

\* a message is dropped only by a call that finds the channel full
DropStep == logLost' # logLost => Len(logCh) = LogChCap /\ logCh' = logCh

C24_FatalDelivered ==
    /\ fPc = "exited"
    /\ consumer
    /\ minLevel # LevelNone
    /\ ~fFiltered
    => fatalId \in Written


(***************************************************************************)
(* The rules of the iptables manager and the order of Apply's commands     *)
(***************************************************************************)

\* IPTablesManager.rules(): table, chain, port match and target of each
\* rule, in the order of the slice
RulesSwapped ==
    << [table |-> "raw", chain |-> "OUTPUT", match |-> "--sport",
        target |-> "NOTRACK"],
       [table |-> "raw", chain |-> "PREROUTING", match |-> "--dport",
        target |-> "NOTRACK"],
       [table |-> "mangle", chain |-> "OUTPUT", match |-> "--sport",
        target |-> "RST DROP"] >>
Rules ==
    << [table |-> "raw", chain |-> "PREROUTING", match |-> "--dport",
        target |-> "NOTRACK"],
       [table |-> "raw", chain |-> "OUTPUT", match |-> "--sport",
        target |-> "NOTRACK"],
       [table |-> "mangle", chain |-> "OUTPUT", match |-> "--sport",
        target |-> "RST DROP"] >>

\* the command line of an add command: the binary, then -t table -A chain
\* and the rule's arguments
CmdLine(a) ==
    <<a.bin, Rules[a.rule].table, Rules[a.rule].chain, Rules[a.rule].match,
      Rules[a.rule].target>>

\* the add commands Apply has issued: those that succeeded and the one
\* that failed, if any
Issued ==
    [k \in 1..(Len(added) + (IF failedAt # 0 THEN 1 ELSE 0)) |->
        IF k <= Len(added) THEN CmdLine(added[k]) ELSE CmdLine(Cmds[failedAt])]

\* the order the commands are to be issued in
FixedOrder ==
    << <<"iptables", "raw", "PREROUTING", "--dport", "NOTRACK">>,
       <<"ip6tables", "raw", "PREROUTING", "--dport", "NOTRACK">>,
       <<"iptables", "raw", "OUTPUT", "--sport", "NOTRACK">>,
       <<"ip6tables", "raw", "OUTPUT", "--sport", "NOTRACK">>,
       <<"iptables", "mangle", "OUTPUT", "--sport", "RST DROP">>,
       <<"ip6tables", "mangle", "OUTPUT", "--sport", "RST DROP">> >>

\* C25: Apply issues its add commands in a fixed order (raw/PREROUTING
\* NOTRACK on --dport, raw/OUTPUT NOTRACK on --sport, mangle/OUTPUT RST DROP
\* on --sport, each rule first with iptables, then with ip6tables), stops
\* at the first command that fails, and issues no command when the port is
\* outside 1..65535.
C25_ApplyOrder ==
    /\ Len(Issued) <= Len(FixedOrder)
    /\ Issued = SubSeq(FixedOrder, 1, Len(Issued))
    /\ failedAt # 0 =>
          /\ Len(added) = failedAt - 1
          /\ iptPc # "applying"
          /\ applyRet = "err"
    /\ (port < 1 \/ port > 65535) => Issued = <<>>

\* Apply has stopped at its third command, the first two having succeeded
C25_Witness ==
    /\ applyRet = "err"
    /\ failedAt = 3
    /\ Len(added) = 2
    /\ cleanups = 0


(***************************************************************************)
(* gRPC transport: a peer that sends any message (C26)                     *)
(***************************************************************************)

\* receiveLoop finds no Strm for the id in activeStreams and makes a new one
\* with a new recvChan
StrmFresh(s) == s \notin gActive

\* the Strm the message is for has a closed recvChan; receiveLoop never
\* deletes a Strm from activeStreams, and Strm.Close deletes it only when its
\* own CompareAndSwap wins, which it cannot after the peer's close
OnClosedChan(s) == ~StrmFresh(s) /\ ~chOpen[s]

\* the per-stream fields after the lookup: those of a new Strm, or the old
StrmField(f, s, zero) == IF StrmFresh(s) THEN [f EXCEPT ![s] = zero] ELSE f

\* receiveLoop gets a data message of n bytes for any stream id
PeerData(s, n) ==
    /\ rlPc = "recv"
    /\ nmsgs < MaxMsgs
    /\ streamMu = -1
    /\ gKnown' = gKnown \cup {s}
    /\ gActive' = gActive \cup {s}
    /\ nmsgs' = nmsgs + 1
    /\ sentLen' = [sentLen EXCEPT ![s] = @ + n]
    /\ sClosed' = StrmField(sClosed, s, FALSE)
    /\ chOpen' = StrmField(chOpen, s, TRUE)
    /\ recvBuf' = StrmField(recvBuf, s, <<>>)
    /\ eof' = StrmField(eof, s, FALSE)
    /\ IF OnClosedChan(s)
       THEN /\ rlPc' = "panic_send"
            /\ UNCHANGED recvChan
       ELSE /\ rlPc' = "top"
            /\ recvChan' = [recvChan EXCEPT
                   ![s] = ChanOffer(IF StrmFresh(s) THEN <<>> ELSE @,
                                    Payload(s, n))]
    /\ UNCHANGED <<gFlagVars, streamMu, readOut, gCountVars, gCloserVars>>
    /\ UNCHANGED allButGrpc

\* receiveLoop gets a close message for any stream id
PeerClose(s) ==
    /\ rlPc = "recv"
    /\ nmsgs < MaxMsgs
    /\ streamMu = -1
    /\ gKnown' = gKnown \cup {s}
    /\ gActive' = gActive \cup {s}
    /\ nmsgs' = nmsgs + 1
    /\ sClosed' = [sClosed EXCEPT ![s] = TRUE]
    /\ recvChan' = StrmField(recvChan, s, <<>>)
    /\ recvBuf' = StrmField(recvBuf, s, <<>>)
    /\ eof' = StrmField(eof, s, FALSE)
    /\ IF OnClosedChan(s)
       THEN /\ rlPc' = "panic_close"
            /\ UNCHANGED chOpen
       ELSE /\ rlPc' = "top"
            /\ chOpen' = [chOpen EXCEPT ![s] = FALSE]
    /\ UNCHANGED <<gFlagVars, streamMu, readOut, sentLen, gCountVars,
                   gCloserVars>>
    /\ UNCHANGED allButGrpc

\* the receive loop under any peer, with the local side closing streams
GrpcPeerNext ==
    \/ RlTop
    \/ \E s \in GStreams, n \in 1..MaxPayload : PeerData(s, n)
    \/ \E s \in GStreams : PeerClose(s)
    \/ RecvFails(TRUE)
    \/ \E k \in Users, s \in GStreams : StrmClose(k, s)
    \/ \E k \in Users : StrmCloseDelete(k)

SpecGrpcPeer == GrpcInit /\ [][GrpcPeerNext]_vars

\* C26: whatever the peer sends (a close repeated for one stream, data after
\* a close), the receive loop never closes a closed recvChan and never sends
\* on one
C26_NoPanic == rlPc \notin {"panic_close", "panic_send"}


(***************************************************************************)
(* Client: forced health checks on retries (C27)                           *)
(***************************************************************************)

\* caller c is at the health check of newConn and this step runs it
ChecksHealth(c) == pc[c] = "health" /\ pc'[c] # "health"

\* the step pings the caller's slot: the check time is stamped, a live
\* connection is returned and a lost one is closed
Pinged(c) ==
    /\ hcAge'[tc[c]] = 0
    /\ IF PingOk(slotConn[tc[c]])
       THEN pc'[c] = "open" /\ got'[c] = slotConn[tc[c]]
       ELSE pc'[c] = "closing"

\* the step returns the slot's connection as it is, without a ping
ReturnedUnchecked(c) ==
    /\ hcAge' = hcAge
    /\ pc'[c] = "open"
    /\ got'[c] = slotConn[tc[c]]

ForcedOnRetryStep ==
    \A c \in Callers :
        ChecksHealth(c) =>
            /\ attempt[c] > 0 => Pinged(c)
            /\ attempt[c] = 0 /\ hcAge[tc[c]] < HealthEvery
                   => ReturnedUnchecked(c)

\* C27: within one newStrm call the first attempt runs newConn without
\* forcing the health check (a recently checked slot is returned without a
\* ping), and every later attempt pings the selected slot before its
\* connection is returned
C27_ForcedOnRetry == [][ForcedOnRetryStep]_vars

\* a later attempt has got a connection out of newConn
C27_Witness ==
    \E c \in Callers :
        /\ attempt[c] > 0
        /\ pc[c] = "open"
        /\ got[c] # 0
        /\ connSt[got[c]] = "open"


(***************************************************************************)
(* Client: a failed TCP flag refresh (C28)                                 *)
(***************************************************************************)

\* caller c runs newConn up to the health check in this step, on a slot
\* that already had a connection
RefreshStep(c) ==
    /\ pc[c] = "lock"
    /\ pc'[c] = "health"
    /\ slotConn[tc'[c]] # 0

TcpfStep ==
    \A c \in Callers :
        RefreshStep(c) =>
            LET s == tc'[c] IN
            /\ ncErr'[c] = "none"
            /\ tcpfRes'[c] = "failed"
                   => /\ tcpfAge[s] >= TcpfEvery
                      /\ tcpfAge'[s] = tcpfAge[s]
            /\ tcpfRes'[c] = "notdue" => tcpfAge'[s] = tcpfAge[s]
            /\ tcpfRes'[c] = "sent" => tcpfAge'[s] = 0
            /\ tcpfAge'[s] # tcpfAge[s] => tcpfRes'[c] = "sent"

\* the last-refresh time of a slot is brought forward only by a refresh that
\* was sent, or together with a new connection for the slot (createConn)
StampStep ==
    \A s \in Slots :
        tcpfAge'[s] < tcpfAge[s] =>
            \/ slotConn'[s] # slotConn[s]
            \/ \E c \in Callers :
                   RefreshStep(c) /\ tc'[c] = s /\ tcpfRes'[c] = "sent"

WouldSelect(d, s) == pc[d] = "lock" /\ nslots > 0 /\ IterNext + 1 = s

\* C29: while one caller is reconnecting slot A, a newConn call that selects
\* another slot B is not blocked: it can take its first step
C29_PerSlotLock ==
    \A a, b \in Slots :
        \A c \in Reconnecting(a), d \in Callers :
            WouldSelect(d, b) /\ b # a => MuFree


(***************************************************************************)
(* QUIC transport connection (internal/tnet/quic): Ping and Close          *)
(***************************************************************************)

\* context.WithCancel(parentCtx): the Conn's context is done with its parent
ParentNever(q) == FALSE
ParentCancels(q) == qParent[q]

\* the listener's context is cancelled
QListenerCancel ==
    /\ ~lnDone
    /\ lnDone' = TRUE
    /\ qCtx' = [q \in QConns |-> qCtx[q] \/ ParentCancels(q)]
    /\ UNCHANGED <<qParent, qTerm, qClosePc, pingPc, pingRet, pingDead, npings>>
    /\ UNCHANGED allButQuic

\* Conn.Close: c.cancel()
QCloseCancel(q) ==
    /\ qClosePc[q] = "idle"
    /\ qClosePc' = [qClosePc EXCEPT ![q] = "cancelled"]
    /\ qCtx' = [qCtx EXCEPT ![q] = TRUE]
    /\ UNCHANGED <<qParent, lnDone, qTerm, pingPc, pingRet, pingDead, npings>>
    /\ UNCHANGED allButQuic

\* Conn.Close: connection.CloseWithError and packetConn.Close
QCloseConn(q) ==
    /\ qClosePc[q] = "cancelled"
    /\ qClosePc' = [qClosePc EXCEPT ![q] = "done"]
    /\ qTerm' = [qTerm EXCEPT ![q] = TRUE]
    /\ UNCHANGED <<qParent, lnDone, qCtx, pingPc, pingRet, pingDead, npings>>
    /\ UNCHANGED allButQuic

\* the QUIC connection ends by itself: the peer closed it or it timed out
QTerminate(q) ==
    /\ ~qTerm[q]
    /\ qTerm' = [qTerm EXCEPT ![q] = TRUE]
    /\ UNCHANGED <<qParent, lnDone, qCtx, qClosePc, pingPc, pingRet, pingDead,
                   npings>>
    /\ UNCHANGED allButQuic

\* the Conn was closed by its own Close, by the listener's cancellation, or
\* its QUIC connection has terminated
Dead(q) == qClosePc[q] # "idle" \/ (qParent[q] /\ lnDone) \/ qTerm[q]

\* Ping(false) is called
PingCall(q) ==
    /\ pingPc[q] = "idle"
    /\ npings < MaxPings
    /\ npings' = npings + 1
    /\ pingPc' = [pingPc EXCEPT ![q] = "ctx"]
    /\ pingRet' = [pingRet EXCEPT ![q] = "none"]
    /\ pingDead' = [pingDead EXCEPT ![q] = Dead(q)]
    /\ UNCHANGED <<qParent, lnDone, qCtx, qTerm, qClosePc>>
    /\ UNCHANGED allButQuic

\* Ping(false): the select on c.ctx.Done() with a default case
PingCtx(q) ==
    /\ pingPc[q] = "ctx"
    /\ IF qCtx[q]
       THEN /\ pingPc' = [pingPc EXCEPT ![q] = "idle"]
            /\ pingRet' = [pingRet EXCEPT ![q] = "canceled"]
       ELSE /\ pingPc' = [pingPc EXCEPT ![q] = "conn"]
            /\ UNCHANGED pingRet
    /\ UNCHANGED <<qParent, lnDone, qCtx, qTerm, qClosePc, pingDead, npings>>
    /\ UNCHANGED allButQuic

\* Ping(false): the select on connection.Context().Done() with a default
PingConn(q) ==
    /\ pingPc[q] = "conn"
    /\ pingPc' = [pingPc EXCEPT ![q] = "idle"]
    /\ pingRet' = [pingRet EXCEPT ![q] = IF qTerm[q] THEN "terminated"
                                                   ELSE "nil"]
    /\ UNCHANGED <<qParent, lnDone, qCtx, qTerm, qClosePc, pingDead, npings>>
    /\ UNCHANGED allButQuic

QuicInit ==
    /\ qParent \in [QConns -> BOOLEAN]
    /\ QuicNew
    /\ OthersIdleForQuic

QuicNext ==
    \/ QListenerCancel
    \/ \E q \in QConns : QCloseCancel(q)
    \/ \E q \in QConns : QCloseConn(q)
    \/ \E q \in QConns : QTerminate(q)
    \/ \E q \in QConns : PingCall(q)
    \/ \E q \in QConns : PingCtx(q)
    \/ \E q \in QConns : PingConn(q)

SpecQuic == QuicInit /\ [][QuicNext]_vars

\* a Ping(false) under way can always take its next step
PingNeverBlocks ==
    \A q \in QConns :
        pingPc[q] # "idle" => ENABLED (PingCtx(q) \/ PingConn(q))

\* a Ping(false) that returns an error does so on a dead Conn, and one that
\* began on a dead Conn returns an error
PingReturnStep ==
    \A q \in QConns :
        pingPc[q] # "idle" /\ pingPc'[q] = "idle" =>
            /\ pingRet'[q] \in {"canceled", "terminated", "nil"}
            /\ pingRet'[q] # "nil" => Dead(q)
            /\ pingDead[q] => pingRet'[q] # "nil"

\* C31: the non-blocking Ping of a QUIC Conn never blocks, and it returns an
\* error exactly when the Conn's context is cancelled (by its own Close or,
\* for a Conn of the listener, by the listener's context) or the QUIC
\* connection has terminated
C31_PingTellsDead == []PingNeverBlocks /\ [][PingReturnStep]_vars

\* a Ping on a listener's Conn has failed on the listener's cancellation alone
C31_Witness ==
    \E q \in QConns :
        /\ qParent[q]
        /\ lnDone
        /\ qClosePc[q] = "idle"
        /\ ~qTerm[q]
        /\ pingRet[q] = "canceled"


(***************************************************************************)
(* gRPC transport: Conn.Close with streams open (C32)                      *)
(***************************************************************************)

\* closer k is inside Strm.Close asking for streamMu while its own
\* Conn.Close holds it: sync.Mutex is not reentrant, nothing releases it
SelfLocked(k) == cPc[k] = "c_stuck" /\ streamMu = k

\* closer k has returned from the Conn.Close call that closed the connection
ClosedConn(k) == cPc[k] = "ret" /\ cTarget[k] = 0 /\ ~cAlready[k]

\* C32: Close of a gRPC connection always returns, whatever streams are
\* still open on it (it does not wait for the stream lock it holds itself),
\* and once it has returned every stream of the connection is closed
C32_CloseReturns ==
    \A k \in Closers :
        /\ ~SelfLocked(k)
        /\ ClosedConn(k) => \A s \in gActive : sClosed[s]


(***************************************************************************)
(* Pool registry: what getConnPool returns when a sweep interleaves (C33)  *)
(***************************************************************************)

\* getter g returns from getConnPool with a pool in this step
GpReturns(g) == gpPc[g] # "done" /\ gpPc'[g] = "done" /\ gpRet'[g] # 0

ReturnsLivePoolStep ==
    \A g \in Getters :
        GpReturns(g) =>
            /\ rpSt'[gpRet'[g]] = "open"
            /\ regPool'[gpAddr[g]] = gpRet'[g]

\* C33: getConnPool never returns a pool the sweeper has closed and removed:
\* under every interleaving with a sweep the pool returned is open and is
\* the pool registered for the address
C33_ReturnsLivePool == [][ReturnsLivePoolStep]_vars


(***************************************************************************)
(* Client: a slot whose re-dial failed (C34)                               *)
(***************************************************************************)

\* newConn returns a connection to caller c in this step, without an error
NewConnReturns(c) == pc[c] \in {"health", "redial"} /\ pc'[c] = "open"

NoClosedConnStep ==
    \A c \in Callers :
        NewConnReturns(c) /\ ~ctxDone => connSt'[got'[c]] # "closed"

\* C34: newConn never returns, without an error, a connection that the
\* client has closed itself: after a health probe failed and the re-dial
\* failed too, later calls for the slot do not hand out the closed connection
C34_NoClosedConn == [][NoClosedConnStep]_vars


(***************************************************************************)
(* Iptables manager: Cleanup called again (C35)                            *)
(***************************************************************************)

\* C35: Cleanup is idempotent with respect to the firewall: a second Cleanup
\* issues no delete command (all deletes ever issued are those of the first
\* walk over the added rules), so no rule that was installed before Apply is
\* removed
C35_CleanupIdempotent ==
    /\ Len(deleted) <= Len(added)
    /\ \A a \in CmdSet : installed[a] >= pre[a]


(***************************************************************************)
(* gRPC transport: data that arrived before the peer's close (C36)         *)
(***************************************************************************)

\* the payloads receiveLoop has handed to stream s and Read has not returned
Unread(s) == recvBuf[s] \o Flatten(recvChan[s])

\* C36: data received for a stream before the peer's close message is not
\* lost: when Read has returned EOF, nothing that had been put into the
\* stream's channel or buffer is left unread
C36_DataBeforeEOF == \A s \in GStreams : eof[s] => Unread(s) = <<>>


(***************************************************************************)
(* Client: monitorTransportStats (internal/client)                         *)
(***************************************************************************)

RECURSIVE SumOver(_, _)
SumOver(f, n) == IF n = 0 THEN 0 ELSE f[n] + SumOver(f, n - 1)

\* unsigned arithmetic of the counters' width
UintMod == Pow2(UintBits)
UintSub(a, b) == (a - b + UintMod) % UintMod

\* a connection drops a packet
StatDrop(s) ==
    /\ pktDrops[s] < MaxDrops
    /\ pktDrops' = [pktDrops EXCEPT ![s] = @ + 1]
    /\ UNCHANGED <<pktQueue, lastDropped, pressure, statTicks, nreplaced>>
    /\ UNCHANGED allButStat

\* the send queue of a connection fills or drains
StatQueue(s, q) ==
    /\ pktQueue[s] # q
    /\ pktQueue' = [pktQueue EXCEPT ![s] = q]
    /\ UNCHANGED <<pktDrops, lastDropped, pressure, statTicks, nreplaced>>
    /\ UNCHANGED allButStat

\* newConn replaces the slot's lost connection: the new connection has a new
\* packet connection, whose counters start at zero
StatReplace(s) ==
    /\ nreplaced < MaxReplaced
    /\ nreplaced' = nreplaced + 1
    /\ pktDrops' = [pktDrops EXCEPT ![s] = 0]
    /\ pktQueue' = [pktQueue EXCEPT ![s] = 0]
    /\ UNCHANGED <<lastDropped, pressure, statTicks>>
    /\ UNCHANGED allButStat

\* the warning's condition and its line
Pressed(total, queueDepth) == total > lastDropped \/ queueDepth > 0
Warning(total, queueDepth) ==
    [dropped |-> total, increment |-> UintSub(total, lastDropped),
     queueDepth |-> queueDepth, shown |-> TRUE]

\* one tick of the monitor: sum the statistics of the slots, warn, remember
MonitorTick ==
    /\ statTicks < MaxStatTicks
    /\ statTicks' = statTicks + 1
    /\ LET total == SumOver(pktDrops, NumStatSlots) % UintMod
           queueDepth == SumOver(pktQueue, NumStatSlots)
       IN /\ pressure' = IF Pressed(total, queueDepth)
                         THEN Warning(total, queueDepth)
                         ELSE NoReport
          /\ lastDropped' = total
    /\ UNCHANGED <<pktDrops, pktQueue, nreplaced>>
    /\ UNCHANGED allButStat

StatInit == StatNew /\ OthersIdleForStat

StatNext ==
    \/ \E s \in StatSlots : StatDrop(s)
    \/ \E s \in StatSlots, q \in 0..MaxDepth : StatQueue(s, q)
    \/ \E s \in StatSlots : StatReplace(s)
    \/ MonitorTick

SpecStat == StatInit /\ [][StatNext]_vars

ReportStep ==
    statTicks' = statTicks + 1 /\ pressure'.shown =>
        /\ pressure'.dropped = SumOver(pktDrops, NumStatSlots)
        /\ pressure'.increment = pressure'.dropped - lastDropped

\* C37: in every packet-pressure warning the increment shown is the current
\* total of dropped packets minus the total of the previous tick, never a
\* wrapped-around unsigned value, also after a slot's connection was
\* replaced and its drop counter began again at zero
C37_Increment == [][ReportStep]_vars


(***************************************************************************)
(* flog: Fatalf ends the process (C38)                                     *)
(***************************************************************************)

\* C38: Fatalf always terminates the process: from every logger state (logCh
\* full, no consumer started, logging disabled) a Fatalf call reaches
\* os.Exit and does not wait on logCh for ever
C38_FatalExits == (fPc # "none") ~> (fPc = "exited")


(***************************************************************************)
(* Client.Start (internal/client)                                          *)
(***************************************************************************)

\* Start is called
CsCall ==
    /\ csPc = "init"
    /\ csPc' = "loop"
    /\ UNCHANGED <<csConf, csItems, csRet, csFailedAt, csCtx, csMonitor,
                   csWatcher>>
    /\ UNCHANGED allButStart

\* what Start does with the connections made so far when one fails: nothing
KeepCreated(items) == items

\* Start, one round of the loop: newTimedConn makes the next slot's
\* connection or fails (it fails when the context is already cancelled)
CsCreate ==
    /\ csPc = "loop"
    /\ Len(csItems) < csConf
    /\ \/ /\ ~csCtx
          /\ csItems' = Append(csItems, "open")
          /\ UNCHANGED <<csPc, csRet, csFailedAt>>
       \/ /\ csPc' = "failed"
          /\ csRet' = "err"
          /\ csFailedAt' = Len(csItems) + 1
          /\ csItems' = KeepCreated(csItems)
    /\ UNCHANGED <<csConf, csCtx, csMonitor, csWatcher>>
    /\ UNCHANGED allButStart

\* Start after the loop: the two goroutines are started and nil is returned
CsSpawn ==
    /\ csPc = "loop"
    /\ Len(csItems) = csConf
    /\ csPc' = "started"
    /\ csMonitor' = TRUE
    /\ csWatcher' = "waiting"
    /\ csRet' = "nil"
    /\ UNCHANGED <<csConf, csItems, csFailedAt, csCtx>>
    /\ UNCHANGED allButStart

\* the context given to Start is cancelled
CsCancel ==
    /\ ~csCtx
    /\ csCtx' = TRUE
    /\ UNCHANGED <<csConf, csPc, csItems, csRet, csFailedAt, csMonitor,
                   csWatcher>>
    /\ UNCHANGED allButStart

\* monitorTransportStats returns on ctx.Done()
CsMonitorEnds ==
    /\ csMonitor
    /\ csCtx
    /\ csMonitor' = FALSE
    /\ UNCHANGED <<csConf, csPc, csItems, csRet, csFailedAt, csCtx, csWatcher>>
    /\ UNCHANGED allButStart

\* the slots the shutdown goroutine has not closed yet
Unclosed == {k \in DOMAIN csItems : csItems[k] # "closed"}

\* the shutdown goroutine: after ctx.Done() it closes the slots one by one
CsWatcherStep ==
    /\ csWatcher \in {"waiting", "closing"}
    /\ csCtx
    /\ IF Unclosed = {}
       THEN /\ csWatcher' = "done"
            /\ UNCHANGED csItems
       ELSE /\ csItems' = [csItems EXCEPT
                             ![CHOOSE k \in Unclosed :
                                   \A m \in Unclosed : k <= m] = "closed"]
            /\ csWatcher' = "closing"
    /\ UNCHANGED <<csConf, csPc, csRet, csFailedAt, csCtx, csMonitor>>
    /\ UNCHANGED allButStart

CsInit ==
    /\ csConf \in 1..MaxStartConns
    /\ CsNew
    /\ OthersIdleForStart

ClientStartNext ==
    \/ CsCall
    \/ CsCreate
    \/ CsSpawn
    \/ CsCancel
    \/ CsMonitorEnds
    \/ CsWatcherStep

SpecStart == CsInit /\ [][ClientStartNext]_vars

\* C39: when Start fails while creating slot i it returns that error, no
\* connection created earlier in the same Start is left open, and neither
\* the statistics monitor nor the shutdown goroutine is running
C39_FailedStartIsClean ==
    csPc = "failed" =>
        /\ csRet = "err"
        /\ \A k \in DOMAIN csItems : csItems[k] # "open"
        /\ ~csMonitor
        /\ csWatcher = "off"


(***************************************************************************)
(* TUN relay: the directions after the handler has returned (C40)          *)
(***************************************************************************)

\* direction d is inside the Write of its destination, which returns
WriteReturns(d) == relayPc[d] = "write" /\ (RelayWrite(d) \/ RelayIOError(d))

\* the stream is closed once the handler has returned (Handler.Start defers
\* strm.Close(); the server's caller is taken to close it as well), so a
\* Read of the stream under way returns an error
StreamReadEnds == tunPc = "returned" /\ relayPc[2] = "read" /\ RelayIOError(2)

\* the goroutines run: the context tests, the writes and the handler's
\* select go on when they can; a Read of the TUN device returns only when
\* the device has a packet or fails
TunFairness ==
    /\ WF_vars(TunStart)
    /\ WF_vars(TunSelectErr \/ TunSelectCtx)
    /\ \A d \in Dirs : WF_vars(RelayCheck(d))
    /\ \A d \in Dirs : WF_vars(WriteReturns(d))
    /\ WF_vars(StreamReadEnds)

SpecTunFair == TunInit /\ [][TunNext]_vars /\ TunFairness

\* CopyTUN has returned in direction d: its deferred TUNPool.Put has run
BufferReturned(d) == relayPc[d] = "done"

\* the handler has returned after starting the two directions
ReturnedFromRelay == tunPc = "returned" /\ \A d \in Dirs : relayPc[d] # "unstarted"

\* C40: after the tunnel handler has returned, the other direction ends too
\* and each direction returns its pooled buffer; no direction waits for ever,
\* neither to report its result nor in a read of the device or the stream
C40_RelaysEnd == ReturnedFromRelay ~> (\A d \in Dirs : BufferReturned(d))

====
